---- MODULE Spec2Model ----
(***************************************************************************)
(* A model of the `import` command of gh-migrate-project                   *)
(* (src/src/commands/import.ts): the loading of the repository mapping     *)
(* file, the correlation of single-select options, the Status             *)
(* reconciliation loop and the replication of the project items.          *)
(*                                                                         *)
(* The remote GraphQL API, the CSV parser and the snapshot file are the    *)
(* environment: a remote call either throws or returns a payload drawn     *)
(* from a small set, the parser delivers the rows of the file one `data`   *)
(* event at a time and then `end`.                                         *)
(***************************************************************************)
EXTENDS Integers, Sequences, FiniteSets, TLC

\* ------------------------------------------------------------------ bounds
\* Largest number of data rows of a mapping file.
MaxRows == 2
\* Largest number of options of an option list given to the correlation.
MaxOpts == 2
\* Largest number of items of a snapshot.
MaxItems == 2
\* Largest number of operator acknowledgments in the Status loop.
MaxAcks == 1

\* --------------------------------------------------------------- JS values
\* The JavaScript `undefined` (an absent member, a Map.get miss) and `null`.
Undefined == "undefined"
Null == "null"

\* JavaScript truthiness of a string-or-undefined value.
Truthy(v) == v # Undefined /\ v # Null /\ v # ""

\* A Map<string, V> is a function whose domain is the set of its keys.
EmptyMap == [k \in {} |-> Undefined]

\* Map.prototype.set
MapSet(m, k, v) == [x \in (DOMAIN m) \cup {k} |-> IF x = k THEN v ELSE m[x]]

\* Map.prototype.get
MapGet(m, k) == IF k \in DOMAIN m THEN m[k] ELSE Undefined

\* Map.prototype.size
MapSize(m) == Cardinality(DOMAIN m)

\* All sequences over S of length at most n.
SeqUpTo(S, n) == UNION {[1..k -> S] : k \in 0..n}

\* ------------------------------------------------- the repository mapping file
\* The column headers a mapping file may carry.
HeaderNames == {"source_repository", "target_repository", "notes"}

\* The cell values of a mapping file.
Cells == {"a/b", "e/f", ""}

\* A parsed mapping file: the parser (headers: true) turns every data row into
\* an object whose keys are the file's headers.
MappingFile(h, rows) == [headers |-> h, rows |-> rows]

\* Every mapping file within the bounds.
AllFiles ==
    UNION { { MappingFile(h, rows) : rows \in SeqUpTo([h -> Cells], MaxRows) } :
            h \in (SUBSET HeaderNames) \ {{}} }

GoodHeaders == {"source_repository", "target_repository"}

\* A row under the two expected headers.
Row(src, tgt) == [source_repository |-> src, target_repository |-> tgt]

\* The mapping files the whole-run specification starts from.
RunFiles ==
    { MappingFile(GoodHeaders, <<Row("a/b", "c/d")>>),
      MappingFile(GoodHeaders, <<Row("a/b", "c/d"), Row("e/f", "g/h")>>),
      MappingFile(GoodHeaders, <<Row("e/f", "g/h")>>),
      MappingFile(GoodHeaders, <<Row("a/b", "")>>),
      MappingFile({"source_repository"}, <<>>),
      MappingFile({"source_repository"}, <<[source_repository |-> "a/b"]>>) }

\* ------------------------------------------------------------ the snapshot
\* A field option of the snapshot; description and color may be missing
\* (Undefined) or null.
FieldOption(id, name, description, color) ==
    [id |-> id, name |-> name, description |-> description, color |-> color]

\* A field definition. hasOptions tells whether the `options` member is
\* present (only single-select fields carry one).
FieldDefinition(id, name, dataType, hasOptions, options) ==
    [id |-> id, name |-> name, dataType |-> dataType,
     hasOptions |-> hasOptions, options |-> options]

TitleField == FieldDefinition("F_title", "Title", "TITLE", FALSE, <<>>)
TextField == FieldDefinition("F_text", "Notes", "TEXT", FALSE, <<>>)
NumberField == FieldDefinition("F_number", "Estimate", "NUMBER", FALSE, <<>>)
DateField == FieldDefinition("F_date", "Due", "DATE", FALSE, <<>>)
PriorityField ==
    FieldDefinition("F_prio", "Priority", "SINGLE_SELECT", TRUE,
        << FieldOption("p1", "High", Undefined, Null),
           FieldOption("p2", "Low", "low priority", Undefined) >>)
StatusField ==
    FieldDefinition("F_status", "Status", "SINGLE_SELECT", TRUE,
        << FieldOption("s1", "Todo", "", "GREEN"),
           FieldOption("s2", "Done", "", "PURPLE") >>)

\* The field lists a snapshot may carry.
FieldLists ==
    { <<TitleField, TextField, StatusField>>,
      <<TitleField, TextField, NumberField, DateField, StatusField>>,
      <<TitleField, PriorityField, StatusField>>,
      <<TitleField, StatusField>>,
      <<TitleField, TextField>> }

\* A field value of an item: __typename, the field it belongs to and the four
\* payload members, of which the exporter fills the one of the value's kind.
FieldValue(typename, fieldId, fieldName, date, number, text, optionId) ==
    [typename |-> typename, fieldId |-> fieldId, fieldName |-> fieldName,
     date |-> date, number |-> number, text |-> text, optionId |-> optionId]

TextValue ==
    FieldValue("ProjectV2ItemFieldTextValue", "F_text", "Notes",
               Undefined, Undefined, "hello", Undefined)
NumberValue ==
    FieldValue("ProjectV2ItemFieldNumberValue", "F_number", "Estimate",
               Undefined, "3", Undefined, Undefined)
DateValue ==
    FieldValue("ProjectV2ItemFieldDateValue", "F_date", "Due",
               "2024-01-31", Undefined, Undefined, Undefined)
PriorityValue ==
    FieldValue("ProjectV2ItemFieldSingleSelectValue", "F_prio", "Priority",
               Undefined, Undefined, Undefined, "p1")
StatusValue ==
    FieldValue("ProjectV2ItemFieldSingleSelectValue", "F_status", "Status",
               Undefined, Undefined, Undefined, "s2")
TitleValue ==
    FieldValue("ProjectV2ItemFieldTextValue", "F_title", "Title",
               Undefined, Undefined, "An issue", Undefined)
RepositoryValue ==
    FieldValue("ProjectV2ItemFieldRepositoryValue", "F_repo", "Repository",
               Undefined, Undefined, Undefined, Undefined)

\* An item of the snapshot. repository and number are read for Issue and
\* PullRequest content, body, creator and createdAt for DraftIssue content.
ProjectItem(id, isArchived, typename, repository, number, title, values) ==
    [id |-> id, isArchived |-> isArchived, typename |-> typename,
     repository |-> repository, number |-> number, title |-> title,
     body |-> "hello", creator |-> "alice", createdAt |-> "T",
     values |-> values]

\* The items a snapshot draws from.
ItemPool ==
    { ProjectItem("I_issue", FALSE, "Issue", "a/b", 5, "An issue",
                  <<TextValue>>),
      ProjectItem("I_pr", TRUE, "PullRequest", "e/f", 7, "A pull request",
                  <<TitleValue, PriorityValue, StatusValue>>),
      ProjectItem("I_draft", TRUE, "DraftIssue", Undefined, 0, "A draft",
                  <<RepositoryValue, TextValue, NumberValue, DateValue>>),
      ProjectItem("I_other", FALSE, "RedactedItem", Undefined, 0, "Hidden",
                  <<>>) }

\* The repositories linked to the source project.
RepositoryLists == { <<>>, <<"e/f", "a/b">> }

\* Every snapshot within the bounds: { project: { fields, repositories },
\* projectItems }.
Snapshots ==
    { s \in [fields : FieldLists, repositories : RepositoryLists,
             items : SeqUpTo(ItemPool, MaxItems)] :
        \A i, j \in DOMAIN s.items : s.items[i].id = s.items[j].id => i = j }

\* The empty snapshot, for the specifications of the loader and of the
\* correlation alone.
NoSnapshot == [fields |-> <<>>, repositories |-> <<>>, items |-> <<>>]

\* ------------------------------------------------------------- the remote
\* The opaque identifier the target assigns to the counterpart of a source
\* entity (a field, an option, an item, the content of an item).
TargetId(id) ==
    CASE id = "F_text" -> "TF_text"
      [] id = "F_number" -> "TF_number"
      [] id = "F_date" -> "TF_date"
      [] id = "F_prio" -> "TF_prio"
      [] id = "F_status" -> "TF_status"
      [] id = "p1" -> "tp1"
      [] id = "p2" -> "tp2"
      [] id = "s1" -> "ts1"
      [] id = "s2" -> "ts2"
      [] id = "o1" -> "t1"
      [] id = "o2" -> "t2"
      [] id = "o3" -> "t3"
      [] id = "o4" -> "t4"
      [] id = "I_issue" -> "PVTI_issue"
      [] id = "I_pr" -> "PVTI_pr"
      [] id = "I_draft" -> "PVTI_draft"
      [] OTHER -> "T_other"

\* The identifier of the issue or pull request an item refers to, in the target.
ContentId(id) ==
    CASE id = "I_issue" -> "C_issue"
      [] id = "I_pr" -> "C_pr"
      [] OTHER -> "C_other"

\* An option as the target returns it: { id, name }.
TargetOption(id, name) == [id |-> id, name |-> name]

\* The target keeps the declared options, in order, under new identifiers.
Echo(options) ==
    [i \in DOMAIN options |-> TargetOption(TargetId(options[i].id), options[i].name)]

\* The option lists a field-creation call may return for the declared ones:
\* the same, the same in another order, one renamed, one more, one fewer.
CreatedOptionLists(options) ==
    LET e == Echo(options)
        n == Len(e)
    IN  { e,
          [i \in 1..n |-> e[n + 1 - i]],
          [i \in 1..n |-> IF i = 1 THEN TargetOption(e[i].id, "Renamed") ELSE e[i]],
          Append(e, TargetOption("t_extra", "Extra")),
          SubSeq(e, 1, n - 1) }

\* The option lists the target's Status field may hold when it is fetched: the
\* operator made them match, renamed one only, or left one option too many.
StatusOptionLists(options) ==
    LET e == Echo(options)
    IN  { e,
          [i \in 1..Len(e) |-> IF i = 1 THEN TargetOption(e[i].id, "Backlog") ELSE e[i]],
          Append(e, TargetOption("t_extra", "In Progress")) }

\* ------------------------------------------------------ the pure functions
\* readRepositoryMappings, the test of the `data` handler: the row has exactly
\* the two expected keys.
RowHeadersValid(row) ==
    /\ Cardinality(DOMAIN row) = 2
    /\ "source_repository" \in DOMAIN row
    /\ "target_repository" \in DOMAIN row

\* OnDataOutput without the test of the target: every row is stored.
OnDataOutputStoresEmptyTarget(out, row) ==
    MapSet(out, row.source_repository, row.target_repository)

\* readRepositoryMappings, the body of the `data` handler for a valid row: a
\* row with an empty target is dropped.
OnDataOutput(out, row) ==
    IF Truthy(row.target_repository)
    THEN MapSet(out, row.source_repository, row.target_repository)
    ELSE out

\* isCustomField with TEXT left out of the custom data types.
isCustomFieldWithoutText(field) ==
    /\ field.dataType \in {"SINGLE_SELECT", "DATE", "NUMBER"}
    /\ field.name # "Status"

\* isCustomField
isCustomField(field) ==
    /\ field.dataType \in {"TEXT", "SINGLE_SELECT", "DATE", "NUMBER"}
    /\ field.name # "Status"

\* Array.prototype.find on option names: the index of the first option of
\* that name, 0 when there is none.
FindByName(options, name) ==
    IF \E i \in DOMAIN options : options[i].name = name
    THEN CHOOSE i \in DOMAIN options :
            /\ options[i].name = name
            /\ \A j \in DOMAIN options : options[j].name = name => i <= j
    ELSE 0

\* correlateCustomFieldOptions, the loop over the old options from the i-th on.
RECURSIVE CorrelateFrom(_, _, _, _)
CorrelateFrom(oldOptions, newOptions, i, map) ==
    IF i > Len(oldOptions) THEN map
    ELSE LET j == FindByName(newOptions, oldOptions[i].name)
         IN  CorrelateFrom(oldOptions, newOptions, i + 1,
                 IF j # 0 THEN MapSet(map, oldOptions[i].id, newOptions[j].id)
                 ELSE map)

\* correlateCustomFieldOptions without the test of the lengths.
correlateWithoutLengthTest(oldOptions, newOptions) ==
    [threw |-> FALSE, map |-> CorrelateFrom(oldOptions, newOptions, 1, EmptyMap)]

\* correlateCustomFieldOptions: throws when the lengths differ, else returns
\* the map from old option ids to new option ids.
correlateCustomFieldOptions(oldOptions, newOptions) ==
    IF Len(oldOptions) # Len(newOptions)
    THEN [threw |-> TRUE, map |-> EmptyMap]
    ELSE [threw |-> FALSE, map |-> CorrelateFrom(oldOptions, newOptions, 1, EmptyMap)]

\* isProjectItemCustomFieldValue
isProjectItemCustomFieldValue(value) ==
    /\ value.typename \notin
          { "ProjectV2ItemFieldRepositoryValue", "ProjectV2ItemFieldLabelValue",
            "ProjectV2ItemFieldUserValue", "ProjectV2ItemFieldPullRequestValue",
            "ProjectV2ItemFieldReviewerValue", "ProjectV2ItemFieldIterationValue",
            "ProjectV2ItemFieldMilestoneValue" }
    /\ value.fieldName # "Title"

\* getReferencedRepositories (src/project-items.ts): the repositories the
\* items of the snapshot refer to.
getReferencedRepositories(items) ==
    { items[i].repository : i \in { k \in DOMAIN items : items[k].repository # Undefined } }

\* CustomField whose optionMappings is a map for every field.
CustomFieldAlwaysWithOptions(targetId, hasOptionMappings, optionMappings) ==
    [targetId |-> targetId, hasOptionMappings |-> TRUE,
     optionMappings |-> optionMappings]

\* An entry of sourceToTargetCustomFieldMappings: { targetId, optionMappings },
\* optionMappings being null for a field without options.
CustomField(targetId, hasOptionMappings, optionMappings) ==
    [targetId |-> targetId, hasOptionMappings |-> hasOptionMappings,
     optionMappings |-> optionMappings]

\* ValuePayload with the text member read from the number of the value.
ValuePayloadTextFromNumber(value, fieldMapping) ==
    [date |-> value.date,
     number |-> value.number,
     text |-> value.number,
     singleSelectOptionId |->
        IF Truthy(value.optionId) /\ fieldMapping.hasOptionMappings
        THEN MapGet(fieldMapping.optionMappings, value.optionId)
        ELSE Undefined]

\* ValuePayload that falls back to the source option id when the option has no
\* correlate.
ValuePayloadKeepsSourceOption(value, fieldMapping) ==
    [date |-> value.date,
     number |-> value.number,
     text |-> value.text,
     singleSelectOptionId |->
        IF Truthy(value.optionId) /\ fieldMapping.hasOptionMappings
        THEN (IF value.optionId \in DOMAIN fieldMapping.optionMappings
              THEN fieldMapping.optionMappings[value.optionId]
              ELSE value.optionId)
        ELSE Undefined]

\* The value of an update call: { date, number, text, singleSelectOptionId }.
ValuePayload(value, fieldMapping) ==
    [date |-> value.date,
     number |-> value.number,
     text |-> value.text,
     singleSelectOptionId |->
        IF Truthy(value.optionId) /\ fieldMapping.hasOptionMappings
        THEN MapGet(fieldMapping.optionMappings, value.optionId)
        ELSE Undefined]

\* The options sent with a field-creation call: a missing description or
\* color is replaced by a placeholder.
FieldOptionsForCreation(field) ==
    IF field.hasOptions
    THEN [i \in DOMAIN field.options |->
            [name |-> field.options[i].name,
             description |-> IF field.options[i].description = Undefined
                             THEN "Placeholder description"
                             ELSE field.options[i].description,
             color |-> IF field.options[i].color = Undefined
                       THEN "BLUE" ELSE field.options[i].color]]
    ELSE <<>>

\* The warnings of one option of a field-creation call.
OptionWarnings(option) ==
    (IF option.description = Undefined THEN <<"placeholderDescription">> ELSE <<>>)
    \o (IF option.color = Undefined THEN <<"defaultColor">> ELSE <<>>)

\* The warnings logged while the options of a field are prepared, in order.
RECURSIVE FieldOptionWarnings(_)
FieldOptionWarnings(options) ==
    IF options = <<>> THEN <<>>
    ELSE OptionWarnings(Head(options)) \o FieldOptionWarnings(Tail(options))

\* ---------------------------------------------------------------- the state
VARIABLES
    file,          \* the parsed repository mapping file (input)
    snapshot,      \* the snapshot: project fields, repositories, items (input)
    pc,            \* the position of the run
    error,         \* the error the run ended with, "none" while there is none
    rowIdx,        \* readRepositoryMappings: the next row to deliver
    output,        \* readRepositoryMappings: the Map being built
    promise,       \* readRepositoryMappings: "pending", "resolved", "rejected"
    repoIdx,       \* the repository being linked
    fieldIdx,      \* the custom field being created
    mappings,      \* sourceToTargetCustomFieldMappings
    isFirstRun,    \* promptUntilStatusFieldsCorrelate: the isFirstRun argument
    prompts,       \* the boxes shown by the Status loop: "full" or "retry"
    acks,          \* the number of operator acknowledgments (Enter)
    itemIdx,       \* the item being replicated
    contentId,     \* the resolved issue or pull request, Undefined before
    createdId,     \* createdProjectItemId of the current item, Undefined before
    valueIdx,      \* the custom field value being replayed
    calls,         \* the remote calls issued so far, in order
    warnings,      \* the logger.warn calls so far, in order
    oldOptions,    \* SpecCorrelate: the first argument of the correlation
    newOptions,    \* SpecCorrelate: the second argument of the correlation
    correlation    \* SpecCorrelate: the outcome of the correlation

vars ==
    << file, snapshot, pc, error, rowIdx, output, promise, repoIdx, fieldIdx,
       mappings, isFirstRun, prompts, acks, itemIdx, contentId, createdId,
       valueIdx, calls, warnings, oldOptions, newOptions, correlation >>

loaderVars == << rowIdx, output, promise >>
loopVars == << repoIdx, fieldIdx, itemIdx, valueIdx >>
statusVars == << isFirstRun, prompts, acks >>
itemVars == << contentId, createdId >>
inputVars == << file, snapshot, oldOptions, newOptions, correlation >>

NoPayload ==
    [date |-> Undefined, number |-> Undefined, text |-> Undefined,
     singleSelectOptionId |-> Undefined]

\* A remote call as logged: the operation, the index of the snapshot item it
\* is for (0 when for none), the identifier, field and value sent, the options
\* sent, the result ("ok", "threw", or "absent" for a reference the remote
\* could not resolve), and the identifier and options returned. The body is
\* sent by the creation of a draft alone, the message is the one of the error
\* the remote answered a lookup with, the title the one of the issue or pull
\* request a lookup found.
Call(op, item, id, field, value, options, result, returnedId, returnedOptions) ==
    [op |-> op, item |-> item, id |-> id, field |-> field, value |-> value,
     options |-> options, result |-> result, returnedId |-> returnedId,
     returnedOptions |-> returnedOptions, body |-> <<>>,
     message |-> <<>>, returnedTitle |-> Undefined]

\* A call without item, field, value or options.
PlainCall(op, id, result) ==
    Call(op, 0, id, Undefined, NoPayload, <<>>, result, Undefined, <<>>)

\* The state of the run before its first step, given its inputs.
RunInit ==
    /\ pc = "readMappings"
    /\ error = "none"
    /\ rowIdx = 1
    /\ output = EmptyMap
    /\ promise = "pending"
    /\ repoIdx = 1
    /\ fieldIdx = 1
    /\ mappings = EmptyMap
    /\ isFirstRun = TRUE
    /\ prompts = <<>>
    /\ acks = 0
    /\ itemIdx = 1
    /\ contentId = Undefined
    /\ createdId = Undefined
    /\ valueIdx = 1
    /\ calls = <<>>
    /\ warnings = <<>>

\* The outcome of the correlation before it is called.
NotCorrelated == [called |-> FALSE, threw |-> FALSE, map |-> EmptyMap]

NoCorrelationCheck ==
    /\ oldOptions = <<>>
    /\ newOptions = <<>>
    /\ correlation = NotCorrelated

\* The whole run, from any mapping file and snapshot of the run sets.
Init ==
    /\ file \in RunFiles
    /\ snapshot \in Snapshots
    /\ RunInit
    /\ NoCorrelationCheck

\* The run ends with an error: the rejection reaches the top level.
Throw(err) ==
    /\ pc' = "failed"
    /\ error' = err

\* ---------------------------------------------------- readRepositoryMappings
\* The `data` event of the next row. A settled promise stays settled, so the
\* rejection is final whatever the stream delivers afterwards.
OnData ==
    /\ pc = "readMappings"
    /\ rowIdx <= Len(file.rows)
    /\ LET row == file.rows[rowIdx]
       IN  IF RowHeadersValid(row)
           THEN /\ output' = OnDataOutput(output, row)
                /\ rowIdx' = rowIdx + 1
                /\ UNCHANGED << pc, error, promise >>
           ELSE /\ promise' = "rejected"
                /\ Throw("malformedMapping")
                /\ UNCHANGED << output, rowIdx >>
    /\ UNCHANGED << loopVars, mappings, statusVars, itemVars, calls, warnings,
                    inputVars >>

\* The `end` event: the promise resolves with the Map.
OnEnd ==
    /\ pc = "readMappings"
    /\ rowIdx > Len(file.rows)
    /\ promise' = "resolved"
    /\ pc' = "preflight"
    /\ UNCHANGED << error, rowIdx, output, loopVars, mappings, statusVars,
                    itemVars, calls, warnings, inputVars >>

\* The specification of the loader alone, over every mapping file.
InitMappings ==
    /\ file \in AllFiles
    /\ snapshot = NoSnapshot
    /\ RunInit
    /\ NoCorrelationCheck

NextMappings ==
    \/ OnData
    \/ OnEnd

SpecMappings == InitMappings /\ [][NextMappings]_vars

\* ------------------------------------------------ correlateCustomFieldOptions
OptionNames == {"A", "B", "C"}
SourceOptionIds == <<"o1", "o2", "o3", "o4">>
TargetOptionIds == <<"t1", "t2", "t3", "t4">>

\* The option lists of the given names, the i-th option under the i-th id.
OptionLists(ids) ==
    { [i \in DOMAIN names |-> TargetOption(ids[i], names[i])] :
        names \in SeqUpTo(OptionNames, MaxOpts) }

\* One call of correlateCustomFieldOptions on the two lists.
Correlate ==
    /\ ~correlation.called
    /\ correlation' =
         [called |-> TRUE,
          threw |-> correlateCustomFieldOptions(oldOptions, newOptions).threw,
          map |-> correlateCustomFieldOptions(oldOptions, newOptions).map]
    /\ UNCHANGED << file, snapshot, pc, error, loaderVars, loopVars, mappings,
                    statusVars, itemVars, calls, warnings, oldOptions, newOptions >>

\* The specification of the correlation alone, over every pair of option lists.
InitCorrelate ==
    /\ file = MappingFile(GoodHeaders, <<>>)
    /\ snapshot = NoSnapshot
    /\ RunInit
    /\ oldOptions \in OptionLists(SourceOptionIds)
    /\ newOptions \in OptionLists(TargetOptionIds)
    /\ correlation = NotCorrelated

NextCorrelate == Correlate

SpecCorrelate == InitCorrelate /\ [][NextCorrelate]_vars

\* ------------------------------------------------------------ the import run
\* RemoteThrow that swallows the error: the run stays where it is and issues
\* the call again.
RemoteThrowThenRetry(call) ==
    /\ calls' = Append(calls, call)
    /\ UNCHANGED << pc, error >>

\* A remote call that threw: it is logged and the run ends.
RemoteThrow(call) ==
    /\ calls' = Append(calls, call)
    /\ Throw("remote")

\* customFieldsToCreate
customFieldsToCreate == SelectSeq(snapshot.fields, isCustomField)

\* The position after the custom fields before the idx-th are created.
AfterField(idx) ==
    IF idx > Len(customFieldsToCreate) THEN "statusFetch" ELSE "createField"

\* AfterRepository that leaves the repository loop at once.
AfterRepositoryLeavesLoop(idx) == AfterField(1)

\* The position after the repositories before the idx-th are handled.
AfterRepository(idx) ==
    IF idx > Len(snapshot.repositories) THEN AfterField(1) ELSE "linkRepository"

\* The position after the items before the idx-th are replicated.
AfterItem(idx) ==
    IF idx > Len(snapshot.items) THEN "done" ELSE "createItem"

\* sourceProjectItemCustomFieldValues of the idx-th item.
CustomFieldValues(idx) ==
    SelectSeq(snapshot.items[idx].values, isProjectItemCustomFieldValue)

\* NextItem that does not advance: the loop takes the same item again.
NextItemRepeats ==
    /\ pc' = "createItem"
    /\ itemIdx' = itemIdx
    /\ valueIdx' = 1
    /\ contentId' = Undefined
    /\ createdId' = Undefined

\* The item loop leaves the current item (`continue`, or the end of its body).
NextItem ==
    /\ pc' = AfterItem(itemIdx + 1)
    /\ itemIdx' = itemIdx + 1
    /\ valueIdx' = 1
    /\ contentId' = Undefined
    /\ createdId' = Undefined

\* The item loop moves to the vIdx-th custom field value of the current item,
\* created under the identifier id, or to the next item when there is none.
GotoValue(vIdx, id) ==
    IF vIdx <= Len(CustomFieldValues(itemIdx))
    THEN /\ pc' = "updateValue"
         /\ valueIdx' = vIdx
         /\ createdId' = id
         /\ UNCHANGED << itemIdx, contentId >>
    ELSE NextItem

\* AfterCreation that archives every created item.
AfterCreationAlwaysArchives(id) ==
    /\ pc' = "archiveItem"
    /\ createdId' = id
    /\ UNCHANGED << itemIdx, valueIdx, contentId >>

\* The item was created under the identifier id: archive it when the source
\* item is archived, else replay its values.
AfterCreation(id) ==
    IF snapshot.items[itemIdx].isArchived
    THEN /\ pc' = "archiveItem"
         /\ createdId' = id
         /\ UNCHANGED << itemIdx, valueIdx, contentId >>
    ELSE GotoValue(1, id)

\* Preflight that accepts every loaded table.
PreflightAcceptsEmptyTable ==
    /\ pc = "preflight"
    /\ pc' = "productInformation"
    /\ UNCHANGED << error, loaderVars, loopVars, mappings, statusVars, itemVars,
                    calls, warnings, inputVars >>

\* The preflight on the loaded mappings: an empty table is refused when the
\* items refer to a repository.
Preflight ==
    /\ pc = "preflight"
    /\ IF getReferencedRepositories(snapshot.items) # {} /\ MapSize(output) = 0
       THEN Throw("configuration")
       ELSE pc' = "productInformation" /\ UNCHANGED error
    /\ UNCHANGED << loaderVars, loopVars, mappings, statusVars, itemVars, calls,
                    warnings, inputVars >>

\* getGitHubProductInformation and the version test.
GetProductInformation ==
    /\ pc = "productInformation"
    /\ \E r \in {"ok", "threw", "unsupported"} :
         LET call == PlainCall("getGitHubProductInformation", Undefined,
                               IF r = "threw" THEN "threw" ELSE "ok")
         IN  CASE r = "threw" -> RemoteThrow(call)
               [] r = "unsupported" ->
                    /\ calls' = Append(calls, call)
                    /\ Throw("unsupportedProduct")
               [] OTHER ->
                    /\ calls' = Append(calls, call)
                    /\ pc' = "getOwner"
                    /\ UNCHANGED error
    /\ UNCHANGED << loaderVars, loopVars, mappings, statusVars, itemVars,
                    warnings, inputVars >>

\* getOwnerGlobalId
GetOwnerGlobalId ==
    /\ pc = "getOwner"
    /\ \E ok \in BOOLEAN :
         LET call == PlainCall("getOwnerGlobalId", Undefined,
                               IF ok THEN "ok" ELSE "threw")
         IN  IF ok
             THEN /\ calls' = Append(calls, call)
                  /\ pc' = "createProject"
                  /\ UNCHANGED error
             ELSE RemoteThrow(call)
    /\ UNCHANGED << loaderVars, loopVars, mappings, statusVars, itemVars,
                    warnings, inputVars >>

\* createProject
CreateProject ==
    /\ pc = "createProject"
    /\ \E ok \in BOOLEAN :
         LET call == PlainCall("createProject", Undefined,
                               IF ok THEN "ok" ELSE "threw")
         IN  IF ok
             THEN /\ calls' = Append(calls, call)
                  /\ pc' = AfterRepository(1)
                  /\ UNCHANGED error
             ELSE RemoteThrow(call)
    /\ UNCHANGED << loaderVars, loopVars, mappings, statusVars, itemVars,
                    warnings, inputVars >>

\* The repository loop, a repository without mapping: warn and continue.
SkipRepository ==
    /\ pc = "linkRepository"
    /\ ~Truthy(MapGet(output, snapshot.repositories[repoIdx]))
    /\ warnings' = Append(warnings, "skipRepository")
    /\ repoIdx' = repoIdx + 1
    /\ pc' = AfterRepository(repoIdx + 1)
    /\ UNCHANGED << error, loaderVars, fieldIdx, itemIdx, valueIdx, mappings,
                    statusVars, itemVars, calls, inputVars >>

\* The repository loop, a mapped repository: getGlobalIdForRepository.
GetGlobalIdForRepository ==
    /\ pc = "linkRepository"
    /\ Truthy(MapGet(output, snapshot.repositories[repoIdx]))
    /\ \E ok \in BOOLEAN :
         LET call == PlainCall("getGlobalIdForRepository",
                               MapGet(output, snapshot.repositories[repoIdx]),
                               IF ok THEN "ok" ELSE "threw")
         IN  IF ok
             THEN /\ calls' = Append(calls, call)
                  /\ pc' = "addRepository"
                  /\ UNCHANGED error
             ELSE RemoteThrow(call)
    /\ UNCHANGED << loaderVars, loopVars, mappings, statusVars, itemVars,
                    warnings, inputVars >>

\* The repository loop, addRepositoryToProject.
AddRepositoryToProject ==
    /\ pc = "addRepository"
    /\ \E ok \in BOOLEAN :
         LET call == PlainCall("addRepositoryToProject",
                               MapGet(output, snapshot.repositories[repoIdx]),
                               IF ok THEN "ok" ELSE "threw")
         IN  IF ok
             THEN /\ calls' = Append(calls, call)
                  /\ repoIdx' = repoIdx + 1
                  /\ pc' = AfterRepository(repoIdx + 1)
                  /\ UNCHANGED error
             ELSE /\ RemoteThrow(call)
                  /\ UNCHANGED repoIdx
    /\ UNCHANGED << loaderVars, fieldIdx, itemIdx, valueIdx, mappings,
                    statusVars, itemVars, warnings, inputVars >>

\* The custom field loop: createProjectField, then the correlation of the
\* options and the entry of the field in the mappings.
CreateProjectField ==
    /\ pc = "createField"
    /\ LET field == customFieldsToCreate[fieldIdx]
           sent == FieldOptionsForCreation(field)
           logged == IF field.hasOptions THEN FieldOptionWarnings(field.options)
                     ELSE <<>>
       IN  /\ warnings' = warnings \o logged
           /\ \E ok \in BOOLEAN :
              \E returned \in (IF field.hasOptions
                               THEN CreatedOptionLists(field.options)
                               ELSE {<<>>}) :
                LET call == Call("createProjectField", 0, Undefined, field.id,
                                 NoPayload, sent, IF ok THEN "ok" ELSE "threw",
                                 IF ok THEN TargetId(field.id) ELSE Undefined,
                                 IF ok THEN returned ELSE <<>>)
                    c == correlateCustomFieldOptions(field.options, returned)
                IN  IF ~ok
                    THEN /\ RemoteThrow(call)
                         /\ UNCHANGED << fieldIdx, mappings >>
                    ELSE IF field.hasOptions /\ c.threw
                    THEN /\ calls' = Append(calls, call)
                         /\ Throw("optionCorrelation")
                         /\ UNCHANGED << fieldIdx, mappings >>
                    ELSE /\ calls' = Append(calls, call)
                         /\ mappings' =
                              MapSet(mappings, field.id,
                                     CustomField(TargetId(field.id), field.hasOptions,
                                         IF field.hasOptions THEN c.map ELSE EmptyMap))
                         /\ fieldIdx' = fieldIdx + 1
                         /\ pc' = AfterField(fieldIdx + 1)
                         /\ UNCHANGED error
    /\ UNCHANGED << loaderVars, repoIdx, itemIdx, valueIdx, statusVars, itemVars,
                    inputVars >>

\* The fields of the snapshot named Status.
SourceStatusFields ==
    SelectSeq(snapshot.fields, LAMBDA field : field.name = "Status")

\* StatusFieldMissing that goes on to the items without Status entry.
StatusFieldMissingSkipsStatus ==
    /\ pc = "statusFetch"
    /\ SourceStatusFields = <<>>
    /\ pc' = AfterItem(1)
    /\ UNCHANGED << error, loaderVars, loopVars, mappings, statusVars, itemVars,
                    calls, warnings, inputVars >>

\* promptUntilStatusFieldsCorrelate on a snapshot without Status field: the
\* read of the options of `undefined` throws.
StatusFieldMissing ==
    /\ pc = "statusFetch"
    /\ SourceStatusFields = <<>>
    /\ Throw("noStatusField")
    /\ UNCHANGED << loaderVars, loopVars, mappings, statusVars, itemVars, calls,
                    warnings, inputVars >>

\* GetProjectStatusField that ends the run on options that do not correlate.
GetProjectStatusFieldThrowsOnMismatch ==
    /\ pc = "statusFetch"
    /\ SourceStatusFields # <<>>
    /\ LET source == SourceStatusFields[1]
       IN  \E ok \in BOOLEAN :
           \E returned \in StatusOptionLists(source.options) :
             LET call == Call("getProjectStatusField", 0, Undefined, Undefined,
                              NoPayload, <<>>, IF ok THEN "ok" ELSE "threw",
                              IF ok THEN TargetId(source.id) ELSE Undefined,
                              IF ok THEN returned ELSE <<>>)
                 c == correlateCustomFieldOptions(source.options, returned)
             IN  IF ~ok
                 THEN /\ RemoteThrow(call)
                      /\ UNCHANGED << mappings, prompts >>
                 ELSE IF c.threw
                 THEN /\ calls' = Append(calls, call)
                      /\ Throw("statusMismatch")
                      /\ UNCHANGED << mappings, prompts >>
                 ELSE /\ calls' = Append(calls, call)
                      /\ mappings' = MapSet(mappings, source.id,
                                        CustomField(TargetId(source.id), TRUE, c.map))
                      /\ pc' = AfterItem(1)
                      /\ UNCHANGED << error, prompts >>
    /\ UNCHANGED << loaderVars, loopVars, isFirstRun, acks, itemVars, warnings,
                    inputVars >>

\* promptUntilStatusFieldsCorrelate: getProjectStatusField, then the
\* correlation: the result is returned, or the box is shown.
GetProjectStatusField ==
    /\ pc = "statusFetch"
    /\ SourceStatusFields # <<>>
    /\ LET source == SourceStatusFields[1]
       IN  \E ok \in BOOLEAN :
           \E returned \in StatusOptionLists(source.options) :
             LET call == Call("getProjectStatusField", 0, Undefined, Undefined,
                              NoPayload, <<>>, IF ok THEN "ok" ELSE "threw",
                              IF ok THEN TargetId(source.id) ELSE Undefined,
                              IF ok THEN returned ELSE <<>>)
                 c == correlateCustomFieldOptions(source.options, returned)
             IN  IF ~ok
                 THEN /\ RemoteThrow(call)
                      /\ UNCHANGED << mappings, prompts >>
                 ELSE IF c.threw
                 THEN /\ calls' = Append(calls, call)
                      /\ prompts' = Append(prompts,
                                           IF isFirstRun THEN "full" ELSE "retry")
                      /\ pc' = "statusPrompt"
                      /\ UNCHANGED << error, mappings >>
                 ELSE /\ calls' = Append(calls, call)
                      /\ mappings' = MapSet(mappings, source.id,
                                        CustomField(TargetId(source.id), TRUE, c.map))
                      /\ pc' = AfterItem(1)
                      /\ UNCHANGED << error, prompts >>
    /\ UNCHANGED << loaderVars, loopVars, isFirstRun, acks, itemVars, warnings,
                    inputVars >>

\* Acknowledge that shows the box again instead of fetching again.
AcknowledgeWithoutFetch ==
    /\ pc = "statusPrompt"
    /\ acks < MaxAcks
    /\ acks' = acks + 1
    /\ isFirstRun' = FALSE
    /\ prompts' = Append(prompts, "retry")
    /\ UNCHANGED << pc, error, loaderVars, loopVars, mappings, itemVars, calls,
                    warnings, inputVars >>

\* Acknowledge that calls the loop again with isFirstRun as it is.
AcknowledgeKeepsFirstRun ==
    /\ pc = "statusPrompt"
    /\ acks < MaxAcks
    /\ acks' = acks + 1
    /\ pc' = "statusFetch"
    /\ UNCHANGED << error, loaderVars, loopVars, mappings, isFirstRun, prompts,
                    itemVars, calls, warnings, inputVars >>

\* The operator hits Enter: the loop calls itself with isFirstRun = false.
Acknowledge ==
    /\ pc = "statusPrompt"
    /\ acks < MaxAcks
    /\ acks' = acks + 1
    /\ isFirstRun' = FALSE
    /\ pc' = "statusFetch"
    /\ UNCHANGED << error, loaderVars, loopVars, mappings, prompts, itemVars,
                    calls, warnings, inputVars >>

\* A string built from parts is the sequence of its characters, each
\* interpolated value being one element of it. The grave accent, which
\* no string of this module can hold, is written by its code point.
GraveAccent == "U+0060"

\* The body of a draft without the Markdown emphasis and code span.
DraftBodyPlain(creatorLogin, createdAt, originalBody) ==
    << "C", "r", "e", "a", "t", "e", "d", " ", "b", "y", " ", "@" >>
        \o << creatorLogin >> \o << " ", "o", "n", " " >> \o << createdAt >>
        \o << "\n", "\n" >> \o << originalBody >>

\* createProjectItemReferencingDraftIssue, the template literal of the body:
\* **Created by `@${creatorLogin}` on ${createdAt}**\n\n${originalBody}
DraftBody(creatorLogin, createdAt, originalBody) ==
    << "*", "*", "C", "r", "e", "a", "t", "e", "d", " ", "b", "y", " ", GraveAccent, "@" >>
        \o << creatorLogin >> \o << GraveAccent, " ", "o", "n", " " >> \o << createdAt >>
        \o << "*", "*", "\n", "\n" >> \o << originalBody >>

\* Whether the content of the item is an issue or a pull request.
ReferencesIssueOrPullRequest(item) == item.typename \in {"Issue", "PullRequest"}

\* SkipUnmappedItem that skips the item without a warning.
SkipUnmappedItemSilently ==
    /\ pc = "createItem"
    /\ ReferencesIssueOrPullRequest(snapshot.items[itemIdx])
    /\ ~Truthy(MapGet(output, snapshot.items[itemIdx].repository))
    /\ NextItem
    /\ UNCHANGED << error, loaderVars, repoIdx, fieldIdx, mappings, statusVars,
                    calls, warnings, inputVars >>

\* SkipUnmappedItem that looks the item up under the source repository
\* before it skips it.
SkipUnmappedItemAfterLookup ==
    /\ pc = "createItem"
    /\ ReferencesIssueOrPullRequest(snapshot.items[itemIdx])
    /\ ~Truthy(MapGet(output, snapshot.items[itemIdx].repository))
    /\ calls' = Append(calls,
                       Call("getIssueOrPullRequest", itemIdx,
                            snapshot.items[itemIdx].repository, Undefined,
                            NoPayload, <<>>, "absent", Undefined, <<>>))
    /\ warnings' = Append(warnings, "skipItemNoMapping")
    /\ NextItem
    /\ UNCHANGED << error, loaderVars, repoIdx, fieldIdx, mappings, statusVars,
                    inputVars >>

\* createProjectItemReferencingIssueOrPullRequest, no repository mapping:
\* warn and skip the item.
SkipUnmappedItem ==
    /\ pc = "createItem"
    /\ ReferencesIssueOrPullRequest(snapshot.items[itemIdx])
    /\ ~Truthy(MapGet(output, snapshot.items[itemIdx].repository))
    /\ warnings' = Append(warnings, "skipItemNoMapping")
    /\ NextItem
    /\ UNCHANGED << error, loaderVars, repoIdx, fieldIdx, mappings, statusVars,
                    calls, inputVars >>

\* A message of the remote is the sequence of its words.
\* The messages the remote may answer a lookup of owner/name#number with:
\* no such issue or pull request, no such repository, another failure.
ResolverErrors ==
    { << "Could", "not", "resolve", "to", "an", "issue", "or", "pull",
         "request", "with", "the", "number", "of", "N" >>,
      << "Could", "not", "resolve", "to", "a", "Repository", "with", "the",
         "name", "owner/name" >>,
      << "Bad", "credentials" >> }

\* e.message.includes(phrase)
Includes(message, phrase) ==
    \E i \in 0..(Len(message) - Len(phrase)) :
        SubSeq(message, i + 1, i + Len(phrase)) = phrase

\* ReturnsNull that holds for every message of an unresolved reference.
ReturnsNullForAnyUnresolved(message) ==
    Includes(message, << "Could", "not", "resolve" >>)

\* getIssueOrPullRequestByRepositoryAndNumber, the catch block: whether the
\* error is turned into null.
ReturnsNull(message) ==
    Includes(message, << "Could", "not", "resolve", "to", "an", "issue", "or",
                         "pull", "request" >>)

\* TitleDiffers that never finds a difference.
TitleDiffersNever(sourceTitle, title) == FALSE

\* createProjectItemReferencingIssueOrPullRequest, the test of the titles.
TitleDiffers(sourceTitle, title) == sourceTitle # title

\* createProjectItemReferencingIssueOrPullRequest, mapped repository:
\* getIssueOrPullRequestByRepositoryAndNumber, null when the error of the
\* remote has the message of an unresolved issue or pull request.
GetIssueOrPullRequest ==
    /\ pc = "createItem"
    /\ ReferencesIssueOrPullRequest(snapshot.items[itemIdx])
    /\ Truthy(MapGet(output, snapshot.items[itemIdx].repository))
    /\ LET item == snapshot.items[itemIdx]
           destination == MapGet(output, item.repository)
       IN  \E found \in {"found", "foundOtherTitle", "error"} :
           \E message \in IF found = "error" THEN ResolverErrors ELSE { <<>> } :
             LET r == IF found # "error" THEN found
                      ELSE IF ReturnsNull(message) THEN "absent" ELSE "threw"
                 title == CASE r = "found" -> item.title
                            [] r = "foundOtherTitle" -> "Another title"
                            [] OTHER -> Undefined
                 call == [Call("getIssueOrPullRequest", itemIdx, destination,
                               Undefined, NoPayload, <<>>,
                               IF r \in {"threw", "absent"} THEN r ELSE "ok",
                               IF r \in {"threw", "absent"} THEN Undefined
                               ELSE ContentId(item.id), <<>>)
                          EXCEPT !.message = message, !.returnedTitle = title]
             IN  CASE r = "threw" ->
                        /\ RemoteThrow(call)
                        /\ UNCHANGED << itemIdx, valueIdx, itemVars, warnings >>
                   [] r = "absent" ->
                        /\ calls' = Append(calls, call)
                        /\ warnings' = Append(warnings, "skipItemAbsent")
                        /\ NextItem
                        /\ UNCHANGED error
                   [] OTHER ->
                        /\ calls' = Append(calls, call)
                        /\ warnings' = IF TitleDiffers(item.title, title)
                                       THEN Append(warnings, "titleMismatch")
                                       ELSE warnings
                        /\ contentId' = ContentId(item.id)
                        /\ pc' = "addItem"
                        /\ UNCHANGED << error, itemIdx, valueIdx, createdId >>
    /\ UNCHANGED << loaderVars, repoIdx, fieldIdx, mappings, statusVars, inputVars >>

\* createProjectItemReferencingIssueOrPullRequest: addItemToProject.
AddItemToProject ==
    /\ pc = "addItem"
    /\ \E ok \in BOOLEAN :
         LET id == TargetId(snapshot.items[itemIdx].id)
             call == Call("addItemToProject", itemIdx, contentId, Undefined,
                          NoPayload, <<>>, IF ok THEN "ok" ELSE "threw",
                          IF ok THEN id ELSE Undefined, <<>>)
         IN  IF ok
             THEN /\ calls' = Append(calls, call)
                  /\ AfterCreation(id)
                  /\ UNCHANGED error
             ELSE /\ RemoteThrow(call)
                  /\ UNCHANGED << itemIdx, valueIdx, itemVars >>
    /\ UNCHANGED << loaderVars, repoIdx, fieldIdx, mappings, statusVars, warnings,
                    inputVars >>

\* createProjectItemReferencingDraftIssue: the body is built and
\* addDraftIssueToProject called with it.
AddDraftIssueToProject ==
    /\ pc = "createItem"
    /\ snapshot.items[itemIdx].typename = "DraftIssue"
    /\ \E ok \in BOOLEAN :
         LET item == snapshot.items[itemIdx]
             id == TargetId(item.id)
             body == DraftBody(item.creator, item.createdAt, item.body)
             call == [Call("addDraftIssueToProject", itemIdx, Undefined,
                           Undefined, NoPayload, <<>>,
                           IF ok THEN "ok" ELSE "threw",
                           IF ok THEN id ELSE Undefined, <<>>)
                      EXCEPT !.body = body]
         IN  IF ok
             THEN /\ calls' = Append(calls, call)
                  /\ AfterCreation(id)
                  /\ UNCHANGED error
             ELSE /\ RemoteThrow(call)
                  /\ UNCHANGED << itemIdx, valueIdx, itemVars >>
    /\ UNCHANGED << loaderVars, repoIdx, fieldIdx, mappings, statusVars, warnings,
                    inputVars >>

\* UnknownContentType that skips the item instead of throwing.
UnknownContentTypeSkipsItem ==
    /\ pc = "createItem"
    /\ snapshot.items[itemIdx].typename \notin {"Issue", "PullRequest", "DraftIssue"}
    /\ NextItem
    /\ UNCHANGED << error, loaderVars, repoIdx, fieldIdx, mappings, statusVars,
                    calls, warnings, inputVars >>

\* createProjectItem, the default branch of the switch.
UnknownContentType ==
    /\ pc = "createItem"
    /\ snapshot.items[itemIdx].typename \notin {"Issue", "PullRequest", "DraftIssue"}
    /\ Throw("unknownContentType")
    /\ UNCHANGED << loaderVars, loopVars, mappings, statusVars, itemVars, calls,
                    warnings, inputVars >>

\* archiveProjectItem, for an item whose source is archived.
ArchiveProjectItem ==
    /\ pc = "archiveItem"
    /\ \E ok \in BOOLEAN :
         LET call == Call("archiveProjectItem", itemIdx, createdId, Undefined,
                          NoPayload, <<>>, IF ok THEN "ok" ELSE "threw",
                          Undefined, <<>>)
         IN  IF ok
             THEN /\ calls' = Append(calls, call)
                  /\ GotoValue(1, createdId)
                  /\ UNCHANGED error
             ELSE /\ RemoteThrow(call)
                  /\ UNCHANGED << itemIdx, valueIdx, itemVars >>
    /\ UNCHANGED << loaderVars, repoIdx, fieldIdx, mappings, statusVars, warnings,
                    inputVars >>

\* The value loop, a value whose field has no entry in the mappings: warn and
\* continue.
SkipFieldValue ==
    /\ pc = "updateValue"
    /\ CustomFieldValues(itemIdx)[valueIdx].fieldId \notin DOMAIN mappings
    /\ warnings' = Append(warnings, "skipFieldValue")
    /\ GotoValue(valueIdx + 1, createdId)
    /\ UNCHANGED << error, loaderVars, repoIdx, fieldIdx, mappings, statusVars,
                    calls, inputVars >>

\* UpdateProjectItemFieldValue that issues no call for an empty payload.
UpdateProjectItemFieldValueSkipsEmptyPayload ==
    /\ pc = "updateValue"
    /\ CustomFieldValues(itemIdx)[valueIdx].fieldId \in DOMAIN mappings
    /\ LET value == CustomFieldValues(itemIdx)[valueIdx]
           fieldMapping == mappings[value.fieldId]
       IN  \E ok \in BOOLEAN :
             LET call == Call("updateProjectItemFieldValue", itemIdx, createdId,
                              fieldMapping.targetId,
                              ValuePayload(value, fieldMapping), <<>>,
                              IF ok THEN "ok" ELSE "threw", Undefined, <<>>)
             IN  IF ValuePayload(value, fieldMapping) = NoPayload
                 THEN /\ GotoValue(valueIdx + 1, createdId)
                      /\ UNCHANGED << error, calls >>
                 ELSE IF ok
                 THEN /\ calls' = Append(calls, call)
                      /\ GotoValue(valueIdx + 1, createdId)
                      /\ UNCHANGED error
                 ELSE /\ RemoteThrow(call)
                      /\ UNCHANGED << itemIdx, valueIdx, itemVars >>
    /\ UNCHANGED << loaderVars, repoIdx, fieldIdx, mappings, statusVars, warnings,
                    inputVars >>

\* The value loop: the payload is built and updateProjectItemFieldValue called.
UpdateProjectItemFieldValue ==
    /\ pc = "updateValue"
    /\ CustomFieldValues(itemIdx)[valueIdx].fieldId \in DOMAIN mappings
    /\ LET value == CustomFieldValues(itemIdx)[valueIdx]
           fieldMapping == mappings[value.fieldId]
       IN  \E ok \in BOOLEAN :
             LET call == Call("updateProjectItemFieldValue", itemIdx, createdId,
                              fieldMapping.targetId,
                              ValuePayload(value, fieldMapping), <<>>,
                              IF ok THEN "ok" ELSE "threw", Undefined, <<>>)
             IN  IF ok
                 THEN /\ calls' = Append(calls, call)
                      /\ GotoValue(valueIdx + 1, createdId)
                      /\ UNCHANGED error
                 ELSE /\ RemoteThrow(call)
                      /\ UNCHANGED << itemIdx, valueIdx, itemVars >>
    /\ UNCHANGED << loaderVars, repoIdx, fieldIdx, mappings, statusVars, warnings,
                    inputVars >>

Next ==
    \/ OnData
    \/ OnEnd
    \/ Preflight
    \/ GetProductInformation
    \/ GetOwnerGlobalId
    \/ CreateProject
    \/ SkipRepository
    \/ GetGlobalIdForRepository
    \/ AddRepositoryToProject
    \/ CreateProjectField
    \/ StatusFieldMissing
    \/ GetProjectStatusField
    \/ Acknowledge
    \/ SkipUnmappedItem
    \/ GetIssueOrPullRequest
    \/ AddItemToProject
    \/ AddDraftIssueToProject
    \/ UnknownContentType
    \/ ArchiveProjectItem
    \/ SkipFieldValue
    \/ UpdateProjectItemFieldValue

Spec == Init /\ [][Next]_vars

\* The run with an operator who answers every box of the Status loop and a
\* remote whose answer to the fetch of the Status field arrives: rl.question
\* resolves once Enter is hit, and the awaited fetch settles.
SpecFair ==
    /\ Init
    /\ [][Next]_vars
    /\ WF_vars(Acknowledge)
    /\ WF_vars(GetProjectStatusField)

\* ================================================================ the claims
\* No two rows of the file have the same source_repository.
UniqueSourceKeys ==
    \A i, j \in DOMAIN file.rows :
        file.rows[i].source_repository = file.rows[j].source_repository => i = j

\* The names a lookup is tried with: the cells and a name no file holds.
LookupNames == Cells \cup {"x/y"}

\* C1: for a mapping file with the two expected headers and unique source
\* keys, once readRepositoryMappings has resolved, the lookup of a row's
\* source returns the row's target when it is non-empty and nothing when it
\* is empty, and the lookup of a name that is no row's source returns nothing.
C1_LookupReturnsMappedTargets ==
    (promise = "resolved" /\ file.headers = GoodHeaders /\ UniqueSourceKeys) =>
        /\ \A i \in DOMAIN file.rows :
             LET row == file.rows[i]
             IN  IF row.target_repository # ""
                 THEN MapGet(output, row.source_repository) = row.target_repository
                 ELSE MapGet(output, row.source_repository) = Undefined
        /\ \A name \in LookupNames :
             (\A i \in DOMAIN file.rows : file.rows[i].source_repository # name)
                 => MapGet(output, name) = Undefined

\* C1 witness: a resolved load of two rows with distinct sources, one with a
\* target and one with an empty target.
C1_Witness ==
    /\ promise = "resolved"
    /\ file.headers = GoodHeaders
    /\ UniqueSourceKeys
    /\ Len(file.rows) = 2
    /\ file.rows[1].target_repository # ""
    /\ file.rows[2].target_repository = ""
    /\ MapGet(output, file.rows[1].source_repository) = file.rows[1].target_repository

\* C2: a mapping file whose headers are not exactly source_repository and
\* target_repository never resolves with a mapping table, whatever its rows,
\* a file without data rows included.
C2_BadHeadersNeverResolve ==
    file.headers # GoodHeaders => promise # "resolved"

\* Every old option name is the name of some new option.
EveryOldNameAmongNew ==
    \A i \in DOMAIN oldOptions :
        \E j \in DOMAIN newOptions : newOptions[j].name = oldOptions[i].name

\* C3: for option lists of equal length in which every old name is among the
\* new names, the correlation returns a map that has every old option id as
\* key and sends no two old option ids to the same new option id.
C3_CorrelationIsTotalBijection ==
    (correlation.called /\ Len(oldOptions) = Len(newOptions) /\ EveryOldNameAmongNew) =>
        /\ ~correlation.threw
        /\ DOMAIN correlation.map = { oldOptions[i].id : i \in DOMAIN oldOptions }
        /\ \A a, b \in DOMAIN correlation.map :
             correlation.map[a] = correlation.map[b] => a = b

\* C4: the correlation throws whenever some old option name is the name of no
\* new option, lists of equal length included.
C4_MissingNameFails ==
    (correlation.called /\ ~EveryOldNameAmongNew) => correlation.threw

\* ------------------------------------------------------ claims on the run
CreationOps == {"addItemToProject", "addDraftIssueToProject"}
ItemOps == CreationOps \cup {"getIssueOrPullRequest", "archiveProjectItem",
                             "updateProjectItemFieldValue"}

\* Errors that come from the target, not from the run's own checks.
TargetErrors == {"remote", "unsupportedProduct"}

\* The field of the snapshot with the given id.
SourceField(id) ==
    snapshot.fields[CHOOSE i \in DOMAIN snapshot.fields : snapshot.fields[i].id = id]

\* The k-th call is a returned field-creation call for a field with options
\* that returned another number of options than the field has.
OptionCountMismatch(k) ==
    /\ calls[k].op = "createProjectField"
    /\ calls[k].result = "ok"
    /\ SourceField(calls[k].field).hasOptions
    /\ Len(calls[k].returnedOptions) # Len(SourceField(calls[k].field).options)

\* C5: when a field-creation call for a field with options returns another
\* number of options than the source field has, the run has failed with the
\* correlation error, that call is the last remote call of the run, the field
\* has no entry in the mappings, and no Status fetch, no prompt and no item
\* call was issued.
C5_OptionCountMismatchHalts ==
    \A k \in DOMAIN calls :
        OptionCountMismatch(k) =>
            /\ pc = "failed"
            /\ error = "optionCorrelation"
            /\ k = Len(calls)
            /\ calls[k].field \notin DOMAIN mappings
            /\ prompts = <<>>
            /\ \A j \in DOMAIN calls :
                 calls[j].op \notin ItemOps \cup {"getProjectStatusField"}

\* C5 witness: a field with 2 options for which the creation returned 3.
C5_Witness ==
    \E k \in DOMAIN calls :
        /\ OptionCountMismatch(k)
        /\ Len(SourceField(calls[k].field).options) = 2
        /\ Len(calls[k].returnedOptions) = 3
        /\ pc = "failed"

\* The step issues a remote call for the value the value loop is at.
UpdateStep ==
    /\ pc = "updateValue"
    /\ Len(calls') = Len(calls) + 1

\* The value the value loop is at.
ReplayedValue == CustomFieldValues(itemIdx)[valueIdx]

Populated(x) == x # Undefined /\ x # Null

\* C6: the update call of a TEXT, NUMBER or DATE value carries the value in the
\* member of its kind and nothing in the three other members.
C6_ScalarPayloadHasOneMember ==
    [][UpdateStep =>
        LET v == ReplayedValue
            c == calls'[Len(calls')]
        IN  /\ c.op = "updateProjectItemFieldValue"
            /\ v.typename = "ProjectV2ItemFieldTextValue" =>
                 /\ Populated(c.value.text) /\ c.value.text = v.text
                 /\ c.value.date = Undefined /\ c.value.number = Undefined
                 /\ c.value.singleSelectOptionId = Undefined
            /\ v.typename = "ProjectV2ItemFieldNumberValue" =>
                 /\ Populated(c.value.number) /\ c.value.number = v.number
                 /\ c.value.date = Undefined /\ c.value.text = Undefined
                 /\ c.value.singleSelectOptionId = Undefined
            /\ v.typename = "ProjectV2ItemFieldDateValue" =>
                 /\ Populated(c.value.date) /\ c.value.date = v.date
                 /\ c.value.number = Undefined /\ c.value.text = Undefined
                 /\ c.value.singleSelectOptionId = Undefined
      ]_vars

\* C6 witness: one item got an update call with a text, one with a number and
\* one with a date.
C6_Witness ==
    \E i, j, k \in DOMAIN calls :
        /\ calls[i].op = "updateProjectItemFieldValue"
        /\ calls[j].op = "updateProjectItemFieldValue"
        /\ calls[k].op = "updateProjectItemFieldValue"
        /\ calls[i].item = calls[j].item /\ calls[j].item = calls[k].item
        /\ calls[i].value.text = "hello" /\ calls[i].field = "TF_text"
        /\ calls[j].value.number = "3" /\ calls[j].field = "TF_number"
        /\ calls[k].value.date = "2024-01-31" /\ calls[k].field = "TF_date"

\* The value the value loop is at is a single-select value whose field has an
\* entry in the mappings and whose option has none in the entry's options.
OptionWithoutCorrelate ==
    /\ ReplayedValue.typename = "ProjectV2ItemFieldSingleSelectValue"
    /\ Truthy(ReplayedValue.optionId)
    /\ ReplayedValue.fieldId \in DOMAIN mappings
    /\ ReplayedValue.optionId \notin DOMAIN mappings[ReplayedValue.fieldId].optionMappings

\* C7: the update call of a single-select value whose option has no correlate
\* carries four empty members and the run raises no error of its own: it ends
\* only if the call itself throws, and otherwise goes on with the next value
\* of the item or, after the last value, with the next item.
C7_UncorrelatedOptionSendsEmptyPayload ==
    [][(UpdateStep /\ OptionWithoutCorrelate) =>
        LET c == calls'[Len(calls')]
        IN  /\ c.op = "updateProjectItemFieldValue"
            /\ c.value = NoPayload
            /\ error' \in {"none", "remote"}
            /\ error' = "remote" => c.result = "threw"
            /\ c.result = "ok" =>
                 \/ /\ valueIdx < Len(CustomFieldValues(itemIdx))
                    /\ pc' = "updateValue"
                    /\ itemIdx' = itemIdx
                    /\ valueIdx' = valueIdx + 1
                 \/ /\ valueIdx = Len(CustomFieldValues(itemIdx))
                    /\ itemIdx' = itemIdx + 1
                    /\ pc' = AfterItem(itemIdx + 1)
      ]_vars

\* C7 witness: an update call with an empty payload returned and the run went
\* on to a call for a later value of the item and to a call for a later item.
C7_Witness ==
    \E i, j, k \in DOMAIN calls :
        /\ i < j /\ j < k
        /\ calls[i].op = "updateProjectItemFieldValue"
        /\ calls[i].value = NoPayload
        /\ calls[i].result = "ok"
        /\ calls[j].op = "updateProjectItemFieldValue"
        /\ calls[j].item = calls[i].item
        /\ calls[k].item > calls[i].item

\* The k-th call is a creation call for item i that returned an identifier.
CreatedAt(k, i) ==
    /\ calls[k].op \in CreationOps
    /\ calls[k].item = i
    /\ calls[k].result = "ok"

\* The positions of the calls of the operation for item i.
CallsFor(op, i) == { k \in DOMAIN calls : calls[k].op = op /\ calls[k].item = i }

\* C8 as stated: at the end of a run, every item of the snapshot has an
\* archive call exactly when its isArchived flag is true.
C8_EveryArchivedItemIsArchived ==
    pc = "done" =>
        \A i \in DOMAIN snapshot.items :
            (CallsFor("archiveProjectItem", i) # {}) <=> snapshot.items[i].isArchived

\* C8 amended: for every item whose creation call returned an identifier, an
\* archive call is issued exactly when the source item is archived: it is
\* the one call that follows the creation call, it carries the returned
\* identifier and precedes every update call of the item; an item that was
\* not created gets no archive call.
C8_CreatedItemArchivedIffFlag ==
    \A i \in DOMAIN snapshot.items :
        /\ \A a \in CallsFor("archiveProjectItem", i) :
             /\ snapshot.items[i].isArchived
             /\ a > 1
             /\ CreatedAt(a - 1, i)
             /\ calls[a].id = calls[a - 1].returnedId
             /\ \A u \in CallsFor("updateProjectItemFieldValue", i) : a < u
        /\ Cardinality(CallsFor("archiveProjectItem", i)) <= 1
        /\ \A k \in DOMAIN calls :
             (CreatedAt(k, i) /\ snapshot.items[i].isArchived) =>
                IF k = Len(calls)
                THEN pc = "archiveItem" /\ itemIdx = i /\ createdId = calls[k].returnedId
                ELSE calls[k + 1].op = "archiveProjectItem" /\ calls[k + 1].item = i
        /\ \A k \in DOMAIN calls :
             (CreatedAt(k, i) /\ ~snapshot.items[i].isArchived) =>
                CallsFor("archiveProjectItem", i) = {}

\* C8 witness: a finished run that created and archived an archived item,
\* then updated a value of it, and created a second item without archiving.
C8_Witness ==
    /\ pc = "done"
    /\ \E i, j \in DOMAIN snapshot.items :
         /\ snapshot.items[i].isArchived
         /\ ~snapshot.items[j].isArchived
         /\ \E a \in CallsFor("archiveProjectItem", i) :
              /\ calls[a].result = "ok"
              /\ \E u \in CallsFor("updateProjectItemFieldValue", i) : a < u
         /\ \E k \in DOMAIN calls : CreatedAt(k, j)
         /\ CallsFor("archiveProjectItem", j) = {}

\* The snapshot of the end-to-end scenarios A and B: one TEXT field beside the
\* built-in Title and Status fields, no linked repository, and one Issue item,
\* a/b#5, not archived, with one value for the TEXT field.
ScenarioSnapshot ==
    /\ snapshot.fields = <<TitleField, TextField, StatusField>>
    /\ snapshot.repositories = <<>>
    /\ Len(snapshot.items) = 1
    /\ snapshot.items[1].typename = "Issue"
    /\ snapshot.items[1].repository = "a/b"
    /\ snapshot.items[1].number = 5
    /\ ~snapshot.items[1].isArchived
    /\ snapshot.items[1].values = <<TextValue>>

\* The numbers of calls of a kind issued so far.
Creations == Cardinality({k \in DOMAIN calls : calls[k].op \in CreationOps})
Archives == Cardinality({k \in DOMAIN calls : calls[k].op = "archiveProjectItem"})
Updates ==
    Cardinality({k \in DOMAIN calls : calls[k].op = "updateProjectItemFieldValue"})

\* The target resolved the issue of the first item.
FirstItemResolved ==
    \E k \in DOMAIN calls :
        /\ calls[k].op = "getIssueOrPullRequest"
        /\ calls[k].item = 1
        /\ calls[k].id = "c/d"
        /\ calls[k].result = "ok"

\* C9 (scenario A): with the scenario snapshot and a loaded table that maps
\* a/b to c/d, the run raises no error of its own, issues no archive call, at
\* most one creation and one update call, and when the target resolved the
\* issue a finished run has issued exactly one creation call and exactly one
\* update call, for the created item and the target id of the TEXT field.
C9_ScenarioA ==
    (ScenarioSnapshot /\ promise = "resolved" /\ MapGet(output, "a/b") = "c/d") =>
        /\ pc = "failed" => error \in TargetErrors
        /\ Archives = 0
        /\ Creations <= 1
        /\ Updates <= 1
        /\ (pc = "done" /\ FirstItemResolved) =>
             /\ Creations = 1
             /\ Updates = 1
             /\ \E k, u \in DOMAIN calls :
                  /\ k < u
                  /\ calls[k].op = "addItemToProject"
                  /\ calls[k].id = ContentId(snapshot.items[1].id)
                  /\ calls[u].op = "updateProjectItemFieldValue"
                  /\ calls[u].id = calls[k].returnedId
                  /\ calls[u].field = TargetId(TextField.id)
                  /\ calls[u].value.text = "hello"

\* C9 witness: scenario A ran to its end with the issue resolved.
C9_Witness ==
    /\ ScenarioSnapshot
    /\ MapGet(output, "a/b") = "c/d"
    /\ pc = "done"
    /\ FirstItemResolved
    /\ Creations = 1
    /\ Updates = 1

\* The outcome scenario B states: the run does not abort of its own, creates
\* and updates nothing, and finishes with exactly one warning logged.
ScenarioBOutcome ==
    /\ pc = "failed" => error \in TargetErrors
    /\ Creations = 0
    /\ Updates = 0
    /\ pc = "done" => warnings = <<"skipItemNoMapping">>

\* C10 as stated (scenario B): with the scenario snapshot and a table, loaded
\* from a file with the two expected headers, that has no entry for a/b, the
\* run has the outcome of scenario B.
C10_ScenarioB ==
    (/\ ScenarioSnapshot
     /\ file.headers = GoodHeaders
     /\ promise = "resolved"
     /\ MapGet(output, "a/b") = Undefined)
        => ScenarioBOutcome

\* C10 amended: the same for a loaded table that has no entry for a/b and is
\* not empty.
C10_ScenarioBNonEmptyTable ==
    (/\ ScenarioSnapshot
     /\ file.headers = GoodHeaders
     /\ promise = "resolved"
     /\ MapGet(output, "a/b") = Undefined
     /\ MapSize(output) > 0)
        => ScenarioBOutcome

\* C10 witness: scenario B with a table that maps e/f only ran to its end with
\* the one warning.
C10_Witness ==
    /\ ScenarioSnapshot
    /\ MapGet(output, "a/b") = Undefined
    /\ MapSize(output) > 0
    /\ pc = "done"
    /\ warnings = <<"skipItemNoMapping">>
    /\ Creations = 0

\* The positions of the calls that create a draft.
DraftCalls == { k \in DOMAIN calls : calls[k].op = "addDraftIssueToProject" }

\* C11 as stated (scenario D): the body sent by every draft-creation call is
\* the line "Created by @c on T", a blank line and the original body of the
\* item, with no other character.
C11_DraftBodyIsPlainAttribution ==
    \A k \in DraftCalls :
        LET item == snapshot.items[calls[k].item]
        IN  calls[k].body =
                << "C", "r", "e", "a", "t", "e", "d", " ", "b", "y", " ", "@",
                   item.creator, " ", "o", "n", " ", item.createdAt,
                   "\n", "\n", item.body >>

\* C11 amended: the body sent by every draft-creation call is the line
\* "**Created by `@c` on T**" (the attribution in Markdown emphasis, the
\* login in a code span), a blank line and the original body of the item,
\* with no other character.
C11_DraftBodyIsMarkdownAttribution ==
    \A k \in DraftCalls :
        LET item == snapshot.items[calls[k].item]
        IN  calls[k].body =
                << "*", "*", "C", "r", "e", "a", "t", "e", "d", " ", "b", "y",
                   " ", GraveAccent, "@", item.creator, GraveAccent, " ", "o",
                   "n", " ", item.createdAt, "*", "*", "\n", "\n", item.body >>

\* C11 witness: the draft of scenario D (creator alice, timestamp T, body
\* hello) was created.
C11_Witness ==
    \E k \in DraftCalls :
        /\ calls[k].result = "ok"
        /\ snapshot.items[calls[k].item].creator = "alice"
        /\ snapshot.items[calls[k].item].createdAt = "T"
        /\ snapshot.items[calls[k].item].body = "hello"
        /\ Len(calls[k].body) = 27

\* The source Status field has its entry in the mappings: the Status loop
\* returned.
StatusRecorded ==
    /\ SourceStatusFields # <<>>
    /\ SourceStatusFields[1].id \in DOMAIN mappings

\* The positions of the fetches of the target's Status field.
StatusFetches == { k \in DOMAIN calls : calls[k].op = "getProjectStatusField" }

\* C12: once the Status loop has returned, the options of its last fetch
\* are as many as the source Status options and hold every name of them, and
\* every source Status option id has a target id in the recorded entry.
C12_DoneOnlyWhenStatusOptionsCorrelate ==
    StatusRecorded =>
        LET source == SourceStatusFields[1]
            last == CHOOSE k \in StatusFetches : \A j \in StatusFetches : j <= k
            fetched == calls[last].returnedOptions
        IN  /\ Len(fetched) = Len(source.options)
            /\ \A i \in DOMAIN source.options :
                 \E j \in DOMAIN fetched : fetched[j].name = source.options[i].name
            /\ \A i \in DOMAIN source.options :
                 source.options[i].id \in DOMAIN mappings[source.id].optionMappings

\* The remote answered the k-th call, a lookup, that the reference cannot be
\* resolved: no such issue or pull request, or no such repository.
ReportedUnresolved(k) ==
    /\ calls[k].op = "getIssueOrPullRequest"
    /\ Len(calls[k].message) >= 3
    /\ SubSeq(calls[k].message, 1, 3) = << "Could", "not", "resolve" >>

\* C13 as stated: a lookup the remote answered with an unresolved reference,
\* be it the issue or pull request or the repository, returned absent, and
\* the run, not aborted, went on to the next item without creating this one.
C13_UnresolvedReferenceIsSkipped ==
    \A k \in DOMAIN calls :
        ReportedUnresolved(k) =>
            /\ calls[k].result = "absent"
            /\ itemIdx > calls[k].item
            /\ CallsFor("addItemToProject", calls[k].item) = {}

\* The remote answered the k-th call, a lookup, that the issue or pull request
\* cannot be resolved.
ReportedIssueUnresolved(k) ==
    /\ ReportedUnresolved(k)
    /\ Len(calls[k].message) >= 9
    /\ SubSeq(calls[k].message, 4, 9) =
          << "to", "an", "issue", "or", "pull", "request" >>

\* C13 amended: a lookup the remote answered with an unresolved issue or pull
\* request returned absent, and the run, not aborted, skipped the item with
\* a warning and no other call for it and went on to the next item; a lookup
\* answered with any other error, the unresolved repository included, is the
\* last call of the run, which ended on it at that item.
C13_OnlyUnresolvedIssueIsSkipped ==
    \A k \in DOMAIN calls :
        (calls[k].op = "getIssueOrPullRequest" /\ calls[k].message # <<>>) =>
            IF ReportedIssueUnresolved(k)
            THEN /\ calls[k].result = "absent"
                 /\ itemIdx > calls[k].item
                 /\ \A j \in DOMAIN calls :
                      calls[j].item = calls[k].item => j = k
                 /\ \E w \in DOMAIN warnings : warnings[w] = "skipItemAbsent"
            ELSE /\ calls[k].result = "threw"
                 /\ k = Len(calls)
                 /\ pc = "failed"
                 /\ error = "remote"
                 /\ itemIdx = calls[k].item

\* C13 witness: the issue of the first item was reported unresolved, and the
\* run went on with a call for the second item.
C13_Witness ==
    \E k \in DOMAIN calls :
        /\ ReportedIssueUnresolved(k)
        /\ calls[k].item = 1
        /\ calls[k].result = "absent"
        /\ \E j \in DOMAIN calls : j > k /\ calls[j].item = 2

\* The content of the i-th item is of none of the three kinds.
UnknownKind(i) ==
    snapshot.items[i].typename \notin {"Issue", "PullRequest", "DraftIssue"}

\* C14: an item of unknown content kind is fatal. No call is ever logged for
\* it or for an item after it, the item loop never passes it, the step that
\* reaches it ends the run with the error of the unknown content type and
\* leaves the calls made for the items before it as they are, and no step
\* follows the end of the run.
C14_UnknownContentTypeIsFatal ==
    /\ [](\A i \in DOMAIN snapshot.items :
            UnknownKind(i) =>
                /\ \A k \in DOMAIN calls : calls[k].item < i
                /\ itemIdx <= i)
    /\ [](error = "unknownContentType" =>
            pc = "failed" /\ UnknownKind(itemIdx))
    /\ [][(pc = "createItem" /\ UnknownKind(itemIdx)) =>
            /\ pc' = "failed"
            /\ error' = "unknownContentType"
            /\ calls' = calls]_vars
    /\ [][pc # "failed"]_vars

\* C14 witness: the run ended on an item of unknown kind that follows an item
\* created before it.
C14_Witness ==
    /\ pc = "failed"
    /\ error = "unknownContentType"
    /\ UnknownKind(itemIdx)
    /\ \E k \in DOMAIN calls : \E j \in 1..(itemIdx - 1) : CreatedAt(k, j)
    /\ \A k \in DOMAIN calls : calls[k].item < itemIdx

\* The numbers of fetches of the target's Status field and of boxes shown.
Fetches == Cardinality(StatusFetches)
Prompts == Len(prompts)

\* C15 as stated: the Status loop starts with a prompt, so every fetch of the
\* target's Status field, the first one included, has its own acknowledgment
\* and a box shown before it.
C15_EveryFetchFollowsAcknowledgment ==
    /\ Fetches <= acks
    /\ Fetches <= Prompts

\* C15 amended: the Status loop starts with a fetch. The first fetch has no
\* box and no acknowledgment before it, a box is shown only after a fetch
\* whose options do not correlate, and every later fetch has exactly one new
\* box and one new acknowledgment before it: waiting for the operator, the
\* fetches and the boxes are one more than the acknowledgments; about to fetch,
\* the three numbers are equal; after the last fetch, which returned or
\* failed, the fetches are one more than the boxes and the acknowledgments.
C15_FetchPrecedesFirstPrompt ==
    /\ pc = "statusPrompt" => (Fetches = acks + 1 /\ Prompts = acks + 1)
    /\ pc = "statusFetch" => (Fetches = acks /\ Prompts = acks)
    /\ pc \notin {"statusPrompt", "statusFetch"} =>
          IF StatusFetches = {}
          THEN acks = 0 /\ Prompts = 0
          ELSE Fetches = acks + 1 /\ Prompts = acks

\* C15 witness: the first fetch found options that correlate, and the loop
\* returned with no box shown and no acknowledgment.
C15_Witness ==
    /\ StatusRecorded
    /\ Fetches = 1
    /\ acks = 0
    /\ prompts = <<>>

\* C16: of the boxes the Status loop has shown, the first is the full one and
\* every later one, shown for a mismatch found after an acknowledgment, is the
\* short retry box; the full box is shown at most once.
C16_FullPromptOnlyFirst ==
    /\ \A i \in DOMAIN prompts :
         prompts[i] = IF i = 1 THEN "full" ELSE "retry"
    /\ Cardinality({ i \in DOMAIN prompts : prompts[i] = "full" }) <= 1
    /\ isFirstRun <=> acks = 0

\* C16 witness: a second mismatch, found after an acknowledgment, was answered
\* with the retry box.
C16_Witness ==
    /\ acks >= 1
    /\ Len(prompts) = acks + 1
    /\ prompts[1] = "full"
    /\ prompts[Len(prompts)] = "retry"

\* A step that fetches the target's Status field.
StatusFetchStep ==
    /\ pc = "statusFetch"
    /\ Len(calls') = Len(calls) + 1
    /\ calls'[Len(calls')].op = "getProjectStatusField"

\* The fetch of the step succeeded.
FetchSucceeded == calls'[Len(calls')].result = "ok"

\* The options the step fetched are as many as the source Status options, as
\* options that match them by name are.
FetchedOptionsMatch ==
    Len(calls'[Len(calls')].returnedOptions) = Len(SourceStatusFields[1].options)

\* The Status loop returned: its entry is recorded and the item phase entered.
StatusLoopReturned ==
    /\ StatusRecorded
    /\ pc \in {"createItem", "done"}
    /\ error = "none"

\* The Status loop is at the bound of the model: it waits for an
\* acknowledgment after MaxAcks acknowledged boxes, every fetch so far having
\* ended in a box.
AtAcknowledgmentBound ==
    /\ pc = "statusPrompt"
    /\ acks = MaxAcks
    /\ Fetches = MaxAcks + 1
    /\ Prompts = MaxAcks + 1

\* The last fetch of the target's Status field failed.
StatusFetchFailed ==
    /\ pc = "failed"
    /\ calls # <<>>
    /\ calls[Len(calls)].op = "getProjectStatusField"
    /\ calls[Len(calls)].result = "threw"

Phase(op) ==
    CASE op = "getOwnerGlobalId" -> 1
      [] op = "createProject" -> 2
      [] op \in {"getGlobalIdForRepository", "addRepositoryToProject"} -> 3
      [] op = "createProjectField" -> 4
      [] op = "getProjectStatusField" -> 5
      [] op \in ItemOps -> 6
      [] OTHER -> 0

\* The place of an operation among the calls of one item: 1 resolve, 2 create,
\* 3 archive, 4 update a field value.
Rank(op) ==
    CASE op = "getIssueOrPullRequest" -> 1
      [] op \in CreationOps -> 2
      [] op = "archiveProjectItem" -> 3
      [] OTHER -> 4

\* The k-th call and the one after it are in the order of the phases, of the
\* items and of the calls of one item, and the k-th returned before the next
\* was issued.
InOrder(k) ==
    LET a == calls[k]
        b == calls[k + 1]
    IN  /\ a.result # "threw"
        /\ Phase(a.op) <= Phase(b.op)
        /\ (Phase(a.op) = 6 /\ Phase(b.op) = 6) =>
              /\ a.item <= b.item
              /\ a.item = b.item =>
                    \/ Rank(a.op) < Rank(b.op)
                    \/ Rank(a.op) = 4 /\ Rank(b.op) = 4

\* Some call of the phase before the k-th call returned.
Returned(phase, k) ==
    \E j \in 1..(k - 1) : Phase(calls[j].op) = phase /\ calls[j].result = "ok"

\* C18: the calls of a run are issued one at a time in the order of the
\* phases: the owner is resolved once and the project created once, each call
\* after the owner's follows a resolved owner, each after the project's a
\* created project, each call of an item a fetched Status field; the items
\* are handled in the order of the snapshot, all calls of an item before any
\* call of the next, and for one item in the order resolve, create, archive,
\* updates.
C18_CallsFollowPhaseOrder ==
    /\ \A k \in 1..(Len(calls) - 1) : InOrder(k)
    /\ \A k \in DOMAIN calls :
         /\ Phase(calls[k].op) >= 2 => Returned(1, k)
         /\ Phase(calls[k].op) >= 3 => Returned(2, k)
         /\ Phase(calls[k].op) = 6 =>
               (Returned(5, k) /\ calls[k].item \in DOMAIN snapshot.items)
    /\ \A p \in {1, 2} :
         Cardinality({ k \in DOMAIN calls : Phase(calls[k].op) = p }) <= 1

\* C18 witness: a finished run with calls of all six phases, for two items, one
\* of them resolved, created, archived and updated.
C18_Witness ==
    /\ pc = "done"
    /\ \A p \in 1..6 : \E k \in DOMAIN calls : Phase(calls[k].op) = p
    /\ \E k \in DOMAIN calls : calls[k].item = 1
    /\ \E k \in DOMAIN calls : calls[k].item = 2
    /\ \E i \in DOMAIN snapshot.items :
         \A r \in 1..4 :
            \E k \in DOMAIN calls : calls[k].item = i /\ Rank(calls[k].op) = r

\* The positions in the snapshot of the fields the table gets an entry for:
\* the custom fields, and the Status field.
TableFields ==
    { i \in DOMAIN snapshot.fields :
        \/ /\ snapshot.fields[i].dataType \in {"TEXT", "SINGLE_SELECT", "DATE", "NUMBER"}
           /\ snapshot.fields[i].name # "Status"
        \/ snapshot.fields[i].name = "Status" }

\* The item phase: the positions of the run from the first item on.
InItemPhase == pc \in {"createItem", "addItem", "archiveItem", "updateValue", "done"}

\* The step puts the entry of one more source field into the table, after
\* the call that created the field, or fetched the Status field, returned its
\* target identifier.
InsertsAfterCall ==
    /\ Len(calls') = Len(calls) + 1
    /\ LET call == calls'[Len(calls')]
       IN  /\ call.result = "ok"
           /\ \/ /\ call.op = "createProjectField"
                 /\ DOMAIN mappings' = DOMAIN mappings \cup {call.field}
                 /\ call.field \notin DOMAIN mappings
                 /\ mappings'[call.field].targetId = call.returnedId
              \/ /\ call.op = "getProjectStatusField"
                 /\ DOMAIN mappings' = DOMAIN mappings \cup {SourceStatusFields[1].id}
                 /\ SourceStatusFields[1].id \notin DOMAIN mappings
                 /\ mappings'[SourceStatusFields[1].id].targetId = call.returnedId
                 /\ InItemPhase'

\* C19: the correlation table only grows, by one entry a step, put in by the
\* step in which the creation call of its field (the fetch, for the Status
\* field) returned; an entry once in the table is never changed or removed;
\* the Status entry is the last one, and the item phase leaves the table as
\* it is; and from the first item on the keys of the table are the ids of the
\* custom fields of the snapshot and of its Status field, the option
\* correlation being null for the fields without a list of options and for
\* them alone.
C19_TableAppendOnlyThenFrozen ==
    /\ [][/\ \A id \in DOMAIN mappings :
                id \in DOMAIN mappings' /\ mappings'[id] = mappings[id]
          /\ mappings' # mappings => InsertsAfterCall
          /\ (InItemPhase \/ StatusRecorded) => mappings' = mappings]_vars
    /\ [](\A k \in DOMAIN calls :
            (calls[k].op = "createProjectField" /\ calls[k].result = "ok") =>
                \/ calls[k].field \in DOMAIN mappings
                \/ k = Len(calls) /\ pc = "failed" /\ error = "optionCorrelation")
    /\ []((InItemPhase \/ \E k \in DOMAIN calls : calls[k].op \in CreationOps) =>
            /\ DOMAIN mappings = { snapshot.fields[i].id : i \in TableFields }
            /\ \A i \in TableFields :
                 mappings[snapshot.fields[i].id].hasOptionMappings
                    <=> snapshot.fields[i].hasOptions)

\* C19 witness: an item was created with a table that holds the entry of a
\* field without options and the entry, with options, of the Status field.
C19_Witness ==
    /\ \E k \in DOMAIN calls : calls[k].op \in CreationOps
    /\ Cardinality(DOMAIN mappings) >= 2
    /\ \E id \in DOMAIN mappings : ~mappings[id].hasOptionMappings
    /\ StatusRecorded
    /\ mappings[SourceStatusFields[1].id].hasOptionMappings

\* What the k-th call asked the remote for: the operation and what was sent.
Request(k) ==
    << calls[k].op, calls[k].item, calls[k].id, calls[k].field, calls[k].value,
       calls[k].options >>

\* C20: no call is issued twice, but for the fetch of the Status field that
\* follows an acknowledged mismatch; a call that failed is the last call of
\* the run, which has ended with the error of the remote; the run once ended
\* takes no further step; and every step keeps the calls made so far, with
\* what they created, and the entries of the table as they are.
C20_FailedCallIsFinal ==
    /\ [](\A j, k \in DOMAIN calls :
            (j < k /\ Request(j) = Request(k)) =>
                /\ calls[k].op = "getProjectStatusField"
                /\ k - j <= acks)
    /\ [](\A k \in DOMAIN calls :
            calls[k].result = "threw" =>
                (k = Len(calls) /\ pc = "failed" /\ error = "remote"))
    /\ [][pc # "failed"]_vars
    /\ [][/\ Len(calls') >= Len(calls)
          /\ SubSeq(calls', 1, Len(calls)) = calls
          /\ \A id \in DOMAIN mappings : id \in DOMAIN mappings']_vars

\* C20 witness: a call for the second item failed after the project, a field
\* and the first item were created; it is the last call and the run has ended.
C20_Witness ==
    /\ pc = "failed"
    /\ error = "remote"
    /\ calls[Len(calls)].result = "threw"
    /\ calls[Len(calls)].item = 2
    /\ \E k \in DOMAIN calls : calls[k].op = "createProject" /\ calls[k].result = "ok"
    /\ \E k \in DOMAIN calls : calls[k].op = "createProjectField" /\ calls[k].result = "ok"
    /\ \E k \in DOMAIN calls : CreatedAt(k, 1)

\* A step that skips the current item, an issue or a pull request: the item
\* loop goes on from a position where nothing was created for the item.
SkipsItem ==
    /\ pc = "createItem"
    /\ ReferencesIssueOrPullRequest(snapshot.items[itemIdx])
    /\ itemIdx' = itemIdx + 1

\* The repository of the current item has no entry in the loaded table.
CurrentItemUnmapped ==
    MapGet(output, snapshot.items[itemIdx].repository) = Undefined

\* C21: a step that skips an issue or pull request item logs one warning and
\* nothing else; it issues no call when the repository has no mapping and the
\* one lookup, answered absent, otherwise; it leaves the correlation table,
\* the repository table and the error as they are, and the loop enters the
\* next item in the state in which it entered the skipped one, so that the
\* later items are handled as without it. No creation, archive or update
\* call is ever logged for an item that was passed without being created.
C21_SkippedItemHasNoEffect ==
    /\ [][SkipsItem =>
            /\ Len(warnings') = Len(warnings) + 1
            /\ SubSeq(warnings', 1, Len(warnings)) = warnings
            /\ warnings'[Len(warnings')] =
                  IF CurrentItemUnmapped THEN "skipItemNoMapping" ELSE "skipItemAbsent"
            /\ IF CurrentItemUnmapped
               THEN calls' = calls
               ELSE /\ Len(calls') = Len(calls) + 1
                    /\ SubSeq(calls', 1, Len(calls)) = calls
                    /\ calls'[Len(calls')].op = "getIssueOrPullRequest"
                    /\ calls'[Len(calls')].item = itemIdx
                    /\ calls'[Len(calls')].result = "absent"
            /\ mappings' = mappings
            /\ output' = output
            /\ error' = error
            /\ << contentId', createdId', valueIdx' >> = << contentId, createdId, valueIdx >>
            /\ << contentId, createdId, valueIdx >> = << Undefined, Undefined, 1 >>
            /\ << repoIdx', fieldIdx', isFirstRun', prompts', acks' >>
                  = << repoIdx, fieldIdx, isFirstRun, prompts, acks >>
            /\ pc' = AfterItem(itemIdx')]_vars
    /\ [](\A i \in DOMAIN snapshot.items :
            (i < itemIdx /\ ~\E k \in DOMAIN calls : CreatedAt(k, i)) =>
                /\ CallsFor("addItemToProject", i) = {}
                /\ CallsFor("addDraftIssueToProject", i) = {}
                /\ CallsFor("archiveProjectItem", i) = {}
                /\ CallsFor("updateProjectItemFieldValue", i) = {}
                /\ MapGet(output, snapshot.items[i].repository) = Undefined =>
                      CallsFor("getIssueOrPullRequest", i) = {})

\* C21 witness: the first item was skipped for its repository without mapping,
\* with one warning and no call, and the second item was created after it.
C21_Witness ==
    /\ Len(snapshot.items) = 2
    /\ ReferencesIssueOrPullRequest(snapshot.items[1])
    /\ MapGet(output, snapshot.items[1].repository) = Undefined
    /\ \A k \in DOMAIN calls : calls[k].item # 1
    /\ \E k \in DOMAIN calls : CreatedAt(k, 2)
    /\ warnings = << "skipItemNoMapping" >>
    /\ pc = "done"

\* A step in which the lookup of the current item found the issue or pull
\* request in the target.
ResolvesItem ==
    /\ pc = "createItem"
    /\ Len(calls') = Len(calls) + 1
    /\ calls'[Len(calls')].op = "getIssueOrPullRequest"
    /\ calls'[Len(calls')].result = "ok"

\* The k-th call is a lookup that found an issue or pull request under
\* another title than the one of the source item.
FoundOtherTitle(k) ==
    /\ calls[k].op = "getIssueOrPullRequest"
    /\ calls[k].result = "ok"
    /\ calls[k].returnedTitle # snapshot.items[calls[k].item].title

\* C22: a lookup that found the issue or pull request goes on to the creation
\* of the item with the content id found, whatever the title found: the step
\* differs from the one with equal titles by the one warning it logs and by
\* nothing else, it neither skips the item nor ends the run, and the call
\* that follows it is the creation call with that content id.
C22_TitleMismatchOnlyWarns ==
    /\ [][ResolvesItem =>
            LET found == calls'[Len(calls')]
                item == snapshot.items[itemIdx]
            IN  /\ warnings' = IF found.returnedTitle # item.title
                               THEN Append(warnings, "titleMismatch")
                               ELSE warnings
                /\ pc' = "addItem"
                /\ contentId' = found.returnedId
                /\ found.returnedId = ContentId(item.id)
                /\ << error', itemIdx', valueIdx', createdId', mappings', output' >>
                      = << error, itemIdx, valueIdx, createdId, mappings, output >>]_vars
    /\ [](\A k \in DOMAIN calls :
            FoundOtherTitle(k) =>
                IF k = Len(calls)
                THEN pc = "addItem" /\ itemIdx = calls[k].item /\ error = "none"
                ELSE /\ calls[k + 1].op = "addItemToProject"
                     /\ calls[k + 1].item = calls[k].item
                     /\ calls[k + 1].id = calls[k].returnedId)

\* C22 witness: the pull request of an archived item was found under another
\* title, and the item was created, archived and updated, the run finishing
\* with the one warning of the titles.
C22_Witness ==
    /\ pc = "done"
    /\ Cardinality({ w \in DOMAIN warnings : warnings[w] = "titleMismatch" }) = 1
    /\ \E k \in DOMAIN calls :
         /\ FoundOtherTitle(k)
         /\ CreatedAt(k + 1, calls[k].item)
         /\ CallsFor("archiveProjectItem", calls[k].item) # {}
         /\ CallsFor("updateProjectItemFieldValue", calls[k].item) # {}

\* The target of the i-th repository of the snapshot, Undefined without
\* mapping.
RepositoryTarget(i) == MapGet(output, snapshot.repositories[i])

\* The positions of the calls of the operation for the target of the i-th
\* repository.
RepositoryCalls(op, i) ==
    { k \in DOMAIN calls : calls[k].op = op /\ calls[k].id = RepositoryTarget(i) }

\* The repositories that the loop has passed and that have no mapping.
PassedUnmapped ==
    { i \in DOMAIN snapshot.repositories :
        i < repoIdx /\ RepositoryTarget(i) = Undefined }

\* The run is past the repository loop: it is at, or has made a call of, the
\* field, Status or item phase.
PastRepositories ==
    \/ pc \in {"createField", "statusFetch", "statusPrompt", "createItem",
               "addItem", "archiveItem", "updateValue", "done"}
    \/ \E k \in DOMAIN calls :
         calls[k].op \in ItemOps \cup {"createProjectField", "getProjectStatusField"}

\* C23: the repository loop handles the repositories of the snapshot in order
\* and all of them before any field is created. A repository without mapping
\* gets one warning and no call; a mapped one that the loop has passed got
\* exactly one resolve call and, right after it, exactly one link call for
\* its target; the calls of a repository come after those of the ones before
\* it; and a resolve call that failed is the last call of the run, with no
\* link call for that repository, none for a later one, and no field or item
\* call.
C23_RepositoriesLinkedInOrder ==
    /\ repoIdx \in 1..(Len(snapshot.repositories) + 1)
    /\ PastRepositories => repoIdx = Len(snapshot.repositories) + 1
    /\ Cardinality({ w \in DOMAIN warnings : warnings[w] = "skipRepository" })
          = Cardinality(PassedUnmapped)
    /\ \A k \in DOMAIN calls :
         calls[k].op \in {"getGlobalIdForRepository", "addRepositoryToProject"} =>
            \E i \in DOMAIN snapshot.repositories :
                i <= repoIdx /\ calls[k].id = RepositoryTarget(i)
    /\ \A i \in DOMAIN snapshot.repositories :
         LET resolves == RepositoryCalls("getGlobalIdForRepository", i)
             links == RepositoryCalls("addRepositoryToProject", i)
         IN  /\ RepositoryTarget(i) = Undefined => (resolves = {} /\ links = {})
             /\ (i < repoIdx /\ RepositoryTarget(i) # Undefined) =>
                   /\ Cardinality(resolves) = 1
                   /\ Cardinality(links) = 1
                   /\ \A k \in resolves : calls[k].result = "ok" /\ k + 1 \in links
                   /\ \A k \in links : calls[k].result = "ok"
             /\ i > repoIdx => (resolves = {} /\ links = {})
             /\ \A j \in DOMAIN snapshot.repositories :
                   i < j => \A k \in resolves \cup links :
                               \A l \in RepositoryCalls("getGlobalIdForRepository", j)
                                        \cup RepositoryCalls("addRepositoryToProject", j) :
                                  k < l
             /\ \A k \in resolves :
                   calls[k].result = "threw" =>
                      /\ k = Len(calls)
                      /\ pc = "failed"
                      /\ repoIdx = i
                      /\ links = {}
                      /\ ~PastRepositories

\* C23 witness: the resolve call of the first repository, a mapped one, failed
\* with a second repository still to link: the run has ended with no link, no
\* field and no item call.
C23_Witness ==
    /\ Len(snapshot.repositories) = 2
    /\ repoIdx = 1
    /\ pc = "failed"
    /\ RepositoryTarget(1) # Undefined
    /\ \E k \in RepositoryCalls("getGlobalIdForRepository", 1) :
         calls[k].result = "threw"
    /\ \A k \in DOMAIN calls :
         calls[k].op \notin ItemOps \cup {"addRepositoryToProject", "createProjectField"}

\* ------------------------------------------------------------------- C24
\* The positions of the log that hold a field-creation call with options.
SingleSelectCreations ==
    { k \in DOMAIN calls : /\ calls[k].op = "createProjectField"
                           /\ \E i \in DOMAIN snapshot.fields :
                                /\ snapshot.fields[i].id = calls[k].field
                                /\ snapshot.fields[i].hasOptions }

\* The options of the snapshot field a creation call was made for.
SourceOptionsOf(k) ==
    LET i == CHOOSE i \in DOMAIN snapshot.fields :
                 snapshot.fields[i].id = calls[k].field
    IN  snapshot.fields[i].options

\* The number of source members (description or color, by `member`) that
\* are missing or null over all the creation calls made.
LackingMembers(member) ==
    Cardinality({ p \in UNION { { <<k, i>> : i \in DOMAIN SourceOptionsOf(k) } :
                                 k \in SingleSelectCreations } :
                    ~Populated(SourceOptionsOf(p[1])[p[2]][member]) })

\* The number of warnings of one kind logged.
WarningsOf(kind) == Cardinality({ w \in DOMAIN warnings : warnings[w] = kind })

\* C24: in every field-creation call for a single-select field every
\* option carries a description and a color (neither missing nor null), its
\* name is the source option's name at the same position, and one warning
\* has been logged per source member that was missing or null.
C24_EveryOptionCarriesDescriptionAndColor ==
    /\ \A k \in SingleSelectCreations :
         /\ Len(calls[k].options) = Len(SourceOptionsOf(k))
         /\ \A i \in DOMAIN calls[k].options :
              /\ calls[k].options[i].name = SourceOptionsOf(k)[i].name
              /\ Populated(calls[k].options[i].description)
              /\ Populated(calls[k].options[i].color)
    /\ WarningsOf("placeholderDescription") = LackingMembers("description")
    /\ WarningsOf("defaultColor") = LackingMembers("color")

\* ------------------------------------------------------------------- C25
\* The snapshot has no field named Status.
NoSourceStatusField == \A i \in DOMAIN snapshot.fields :
                           snapshot.fields[i].name # "Status"

\* Every custom field of the snapshot has been created on the target.
AllCustomFieldsCreated ==
    \A i \in DOMAIN customFieldsToCreate :
      \E k \in DOMAIN calls : /\ calls[k].op = "createProjectField"
                              /\ calls[k].field = customFieldsToCreate[i].id
                              /\ calls[k].result = "ok"

\* C25: on a snapshot without Status field the Status step ends the run on
\* entry, without fetch and without prompt; by then the project and all the
\* custom fields are created and the repository loop is over, and no item
\* call is ever made and the run never completes.
C25_MissingStatusFieldAbortsBeforeItems ==
    /\ [](NoSourceStatusField =>
            /\ \A k \in DOMAIN calls :
                 calls[k].op \notin ItemOps \cup {"getProjectStatusField"}
            /\ prompts = <<>>
            /\ acks = 0
            /\ pc \notin {"done", "statusPrompt", "createItem", "addItem", "archiveItem",
                          "updateValue"}
            /\ error = "noStatusField" =>
                 /\ pc = "failed"
                 /\ \E k \in DOMAIN calls : /\ calls[k].op = "createProject"
                                            /\ calls[k].result = "ok"
                 /\ repoIdx > Len(snapshot.repositories)
                 /\ AllCustomFieldsCreated)
    /\ [][pc = "statusFetch" /\ NoSourceStatusField =>
            /\ pc' = "failed"
            /\ error' = "noStatusField"
            /\ calls' = calls
            /\ prompts' = prompts]_vars

\* The run ended on the missing Status field of a snapshot with a repository
\* and a custom field.
C25_Witness ==
    /\ error = "noStatusField"
    /\ NoSourceStatusField
    /\ snapshot.repositories # <<>>
    /\ customFieldsToCreate # <<>>
    /\ snapshot.items # <<>>

\* ------------------------------------------------------------------- C26
\* The mappings were loaded and the preflight on them is over.
PastPreflight == promise = "resolved" /\ pc \notin {"readMappings", "preflight"}

\* At least one item of the snapshot references a repository.
ItemsReferenceRepository == getReferencedRepositories(snapshot.items) # {}

\* C26: with an empty loaded table and an item that references a repository
\* the preflight ends the run with the configuration error and no remote
\* call at all has been or is ever made; a run with an empty table gets past
\* the preflight without that error only when no item references a
\* repository.
C26_EmptyTableAbortsBeforeAnyCall ==
    /\ []((PastPreflight /\ MapSize(output) = 0 /\ ItemsReferenceRepository)
            => (pc = "failed" /\ error = "configuration" /\ calls = <<>>))
    /\ []((PastPreflight /\ MapSize(output) = 0 /\ error # "configuration")
            => ~ItemsReferenceRepository)
    /\ []((PastPreflight /\ MapSize(output) = 0 /\ ~ItemsReferenceRepository)
            => error # "configuration")
    /\ [][(pc = "preflight" /\ MapSize(output) = 0 /\ ItemsReferenceRepository)
            => (pc' = "failed" /\ error' = "configuration" /\ calls' = calls)]_vars

\* The run was refused on an empty table loaded from a file with a row.
C26_Witness ==
    /\ PastPreflight
    /\ file.rows # <<>>
    /\ MapSize(output) = 0
    /\ ItemsReferenceRepository
    /\ error = "configuration"
    /\ calls = <<>>

\* A run with an empty table and a snapshot of drafts only ran to its end.
C26_WitnessDraftsOnly ==
    /\ PastPreflight
    /\ MapSize(output) = 0
    /\ snapshot.items # <<>>
    /\ ~ItemsReferenceRepository
    /\ pc = "done"

\* ------------------------------------------------------------------- C27
\* The value is of a system-managed kind: repository, labels, user, reviewer,
\* pull request, iteration, milestone, or the Title field.
SystemManaged(value) ==
    \/ value.typename \in
          { "ProjectV2ItemFieldRepositoryValue", "ProjectV2ItemFieldLabelValue",
            "ProjectV2ItemFieldUserValue", "ProjectV2ItemFieldReviewerValue",
            "ProjectV2ItemFieldPullRequestValue",
            "ProjectV2ItemFieldIterationValue",
            "ProjectV2ItemFieldMilestoneValue" }
    \/ value.fieldName = "Title"

\* The values of the i-th item an update call is due for, in source order:
\* not system-managed and of a field with an entry in the mappings.
ValuesToReplay(i) ==
    SelectSeq(snapshot.items[i].values,
              LAMBDA v : ~SystemManaged(v) /\ v.fieldId \in DOMAIN mappings)

\* The values of the i-th item skipped with a warning: not system-managed and
\* of a field without entry in the mappings.
ValuesWithoutMapping(i) ==
    SelectSeq(snapshot.items[i].values,
              LAMBDA v : ~SystemManaged(v) /\ v.fieldId \notin DOMAIN mappings)

\* The update calls issued for the i-th item, in order.
UpdatesOf(i) ==
    SelectSeq(calls, LAMBDA c : c.op = "updateProjectItemFieldValue" /\ c.item = i)

\* The positions of the returned creation calls of the i-th item.
CreationsOf(i) ==
    { k \in DOMAIN calls : /\ calls[k].op \in CreationOps
                           /\ calls[k].item = i
                           /\ calls[k].result = "ok" }

\* The items the loop has passed that were created.
CreatedAndPassed == { i \in DOMAIN snapshot.items : i < itemIdx /\ CreationsOf(i) # {} }

\* C27: the update calls of an item are, in order, one per value that is not
\* system-managed and whose field has an entry in the mappings, the values
\* with an empty payload included; each carries the identifier the creation
\* call of the item returned and the target field of the entry; all of them
\* are issued once the loop has passed a created item, and one warning is
\* logged per value of a created item whose field has no entry.
C27_OneUpdatePerMappedCustomValue ==
    /\ \A i \in DOMAIN snapshot.items :
         LET u == UpdatesOf(i)
             e == ValuesToReplay(i)
         IN  /\ u # <<>> => Cardinality(CreationsOf(i)) = 1
             /\ Len(u) <= Len(e)
             /\ \A j \in DOMAIN u :
                  /\ u[j].field = mappings[e[j].fieldId].targetId
                  /\ u[j].value = ValuePayload(e[j], mappings[e[j].fieldId])
                  /\ u[j].id # Undefined
                  /\ \A k \in CreationsOf(i) : u[j].id = calls[k].returnedId
             /\ i \in CreatedAndPassed => Len(u) = Len(e)
    /\ pc = "done" =>
         WarningsOf("skipFieldValue") =
            Cardinality(UNION { { <<i, j>> : j \in DOMAIN ValuesWithoutMapping(i) } :
                                i \in CreatedAndPassed })

\* The run completed after a created item with a system-managed value and
\* values without entry, for which no update call was issued, and a created
\* item with a system-managed value and two update calls, one of them with an
\* entirely empty payload.
C27_Witness ==
    /\ pc = "done"
    /\ \E i \in CreatedAndPassed :
         /\ \E j \in DOMAIN snapshot.items[i].values :
              SystemManaged(snapshot.items[i].values[j])
         /\ Len(ValuesWithoutMapping(i)) > 1
         /\ UpdatesOf(i) = <<>>
    /\ \E i \in CreatedAndPassed :
         /\ \E j \in DOMAIN snapshot.items[i].values :
              SystemManaged(snapshot.items[i].values[j])
         /\ Len(UpdatesOf(i)) = 2
         /\ \E j \in DOMAIN UpdatesOf(i) : UpdatesOf(i)[j].value = NoPayload
====
